---- MODULE Spec2Model ----
(***************************************************************************)
(* Single-decision engine for market data: time alignment, sanitization,   *)
(* order-book replay, data trust, hypothesis and decision, with the        *)
(* periodic stall tick.  Times are microseconds, prices and amounts are    *)
(* small integers; bps comparisons are done by cross-multiplication.       *)
(***************************************************************************)
EXTENDS Integers, Sequences, FiniteSets, TLC

\* Python's None for optional numbers (timestamps, prices, amounts).
NULL == 0 - 1000

\* ---------------------------------------------------------------- bounds
MaxTs == 3
MaxAlign == 4
MaxLateness == 2
MaxBuffer == 1
MaxDepth == 2
MaxPrice == 3
MaxAmount == 1
MaxCompute == 3
MaxIngest == 4
MaxTick == 1
MaxNow == 2
MaxThreadIngest == 2
MaxSwitch == 3
MaxSanitize == 3
MaxField == 2
MaxNulls == 2
MaxVerify == 3

VARIABLES
    cfg,        \* configuration read by the constructors
    aligner,    \* TimeAligner: _last_event_ts, _heap, _tie
    lob,        \* OrderBookReplayer: its OrderBook and _snapshot_active
    decision,   \* DecisionMachine: last_ts, last_reason
    ret,        \* what the last call of the component under test returned
    emitted,    \* history: heap entries in the order align emitted them
    late_ties,  \* history: tie numbers of the events align flagged late
    seen,       \* history: the decisions compute returned, per input pair
    calls,      \* history: number of calls made so far
    sanitizer,  \* Sanitizer: the ticker carry-forward cache
    trust,      \* DataTrustPolicy: windows, sums and per-stream verdicts
    hypo,       \* HypothesisPolicy: state, _stable_since_us, last prices
    state,      \* EngineState: sanitization, data_trust, hypothesis, decision
    stats,      \* EngineStats: counters and the four dwell trackers
    writer,     \* OutputWriter: the records written, per file
    last_ingest_ts_by_stream,
    clock,      \* what now_us() returns
    ing,        \* the thread of run_loop: where it is in ingest, its locals
    tk,         \* the thread of tick_loop: where it is in tick, its locals
    hist,       \* history: the consensus evaluations of verify
    ticks,      \* history: number of tick calls that found a stall
    main        \* main and run_loop: position, stop_event, adapter, tick_loop

vars == <<main, cfg, aligner, lob, decision, ret, emitted, late_ties, seen, calls,
          sanitizer, trust, hypo, state, stats, writer,
          last_ingest_ts_by_stream, clock, ing, tk, hist, ticks>>

engineVars == <<sanitizer, trust, hypo, state, stats, writer,
                last_ingest_ts_by_stream, clock, ing, tk, hist, ticks>>

\* the variables each component specification leaves alone
alignerVars == <<aligner, emitted, late_ties>>
decisionVars == <<decision, seen>>

\* ------------------------------------------------------------ TimeAligner

\* TimeAligner.__init__
AlignerInit == [last_event_ts |-> NULL, heap |-> {}, tie |-> 0]

\* a watermark without the allowed lateness (a variant the emission rule
\* check must tell apart from the code)
compute_watermarkNoLateness(al, c) ==
    IF al.last_event_ts = NULL THEN NULL ELSE al.last_event_ts

\* TimeAligner._compute_watermark
compute_watermark(al, c) ==
    IF al.last_event_ts = NULL THEN NULL
    ELSE al.last_event_ts - c.allowed_lateness_us

\* a queue in place of the heap: the oldest entry
HeapTopFifo(h) == CHOOSE e \in h : \A f \in h : e[2] <= f[2]

\* heapq order on (event_ts, tie, ev): the smallest entry, self._heap[0]
HeapTop(h) ==
    CHOOSE e \in h : \A f \in h : e[1] < f[1] \/ (e[1] = f[1] /\ e[2] <= f[2])

\* popping only below the watermark (a variant the scenario check must tell
\* apart from the code)
RECURSIVE PopWhileBelow(_, _)
PopWhileBelow(h, wm) ==
    IF h # {} /\ HeapTop(h)[1] < wm
    THEN <<HeapTop(h)>> \o PopWhileBelow(h \ {HeapTop(h)}, wm)
    ELSE <<>>

\* while self._heap and self._heap[0][0] <= watermark: heappop
RECURSIVE PopWhile(_, _)
PopWhile(h, wm) ==
    IF h # {} /\ HeapTop(h)[1] <= wm
    THEN <<HeapTop(h)>> \o PopWhile(h \ {HeapTop(h)}, wm)
    ELSE <<>>

SeqRange(s) == {s[i] : i \in 1..Len(s)}

\* align that does not buffer an event it flags late (a variant the
\* conservation check must tell apart from the code)
alignDropsLate(al, c, ev) ==
    IF ev.event_ts = NULL
    THEN [aligner |-> al,
          popped |-> <<>>,
          out |-> <<ev>>,
          stats |-> [pushed |-> 1, emitted |-> 1, late |-> 0,
                     forced_flush |-> FALSE, buffer_len |-> Cardinality(al.heap)]]
    ELSE
      LET last == IF al.last_event_ts = NULL \/ ev.event_ts > al.last_event_ts
                  THEN ev.event_ts ELSE al.last_event_ts
          al1 == [al EXCEPT !.last_event_ts = last]
          prev_watermark == compute_watermark(al1, c)
          late == IF prev_watermark # NULL /\ ev.event_ts < prev_watermark
                  THEN 1 ELSE 0
          heap1 == IF late = 1 THEN al1.heap
                   ELSE al1.heap \cup {<<ev.event_ts, al1.tie, ev>>}
          watermark == compute_watermark(al1, c)
          first_event_ts == IF heap1 = {} THEN watermark ELSE HeapTop(heap1)[1]
          forced == (watermark - first_event_ts) > c.max_buffer_us
          threshold == IF forced THEN first_event_ts + c.max_buffer_us
                       ELSE watermark
          popped == PopWhile(heap1, threshold)
          heap2 == heap1 \ SeqRange(popped)
      IN [aligner |-> [last_event_ts |-> last, heap |-> heap2,
                       tie |-> al1.tie + 1],
          popped |-> popped,
          out |-> [i \in 1..Len(popped) |-> popped[i][3]],
          stats |-> [pushed |-> 1, emitted |-> Len(popped), late |-> late,
                     forced_flush |-> forced,
                     buffer_len |-> Cardinality(heap2)]]

\* TimeAligner.align: the new aligner, the popped heap entries (whose third
\* component is the emitted event) and the TimeAlignmentStats.
align(al, c, ev) ==
    IF ev.event_ts = NULL
    THEN [aligner |-> al,
          popped |-> <<>>,
          out |-> <<ev>>,
          stats |-> [pushed |-> 1, emitted |-> 1, late |-> 0,
                     forced_flush |-> FALSE, buffer_len |-> Cardinality(al.heap)]]
    ELSE
      LET last == IF al.last_event_ts = NULL \/ ev.event_ts > al.last_event_ts
                  THEN ev.event_ts ELSE al.last_event_ts
          al1 == [al EXCEPT !.last_event_ts = last]
          prev_watermark == compute_watermark(al1, c)
          late == IF prev_watermark # NULL /\ ev.event_ts < prev_watermark
                  THEN 1 ELSE 0
          heap1 == al1.heap \cup {<<ev.event_ts, al1.tie, ev>>}
          watermark == compute_watermark(al1, c)
          first_event_ts == HeapTop(heap1)[1]
          forced == (watermark - first_event_ts) > c.max_buffer_us
          threshold == IF forced THEN first_event_ts + c.max_buffer_us
                       ELSE watermark
          popped == PopWhile(heap1, threshold)
          heap2 == heap1 \ SeqRange(popped)
      IN [aligner |-> [last_event_ts |-> last, heap |-> heap2,
                       tie |-> al1.tie + 1],
          popped |-> popped,
          out |-> [i \in 1..Len(popped) |-> popped[i][3]],
          stats |-> [pushed |-> 1, emitted |-> Len(popped), late |-> late,
                     forced_flush |-> forced,
                     buffer_len |-> Cardinality(heap2)]]

\* -------------------------------------------------------- DecisionMachine

DataTrustStates == {"TRUSTED", "DEGRADED", "UNTRUSTED"}
HypothesisStates == {"VALID", "WEAKENING", "INVALID"}
DecisionStates == {"ALLOWED", "RESTRICTED", "HALTED"}

TrustHypoPairs == DataTrustStates \X HypothesisStates

\* no call of compute yet
SeenInit == [p \in TrustHypoPairs |-> {}]

\* DecisionMachine.__init__ (the string "None" stands for a null reason)
DecisionInit == [last_ts |-> NULL, last_reason |-> "None"]

\* compute as it would be if it read the machine: RESTRICTED kept after a stall
computeSticky(self, data_trust, hypothesis) ==
    IF self.last_ts # NULL /\ self.last_reason = "stall:trades"
    THEN "RESTRICTED"
    ELSE IF data_trust = "DEGRADED" \/ hypothesis = "WEAKENING" THEN "RESTRICTED"
    ELSE IF data_trust = "UNTRUSTED" \/ hypothesis = "INVALID" THEN "HALTED"
    ELSE "ALLOWED"

\* compute without the DEGRADED half of its first test
computeNoDegraded(self, data_trust, hypothesis) ==
    IF hypothesis = "WEAKENING" THEN "RESTRICTED"
    ELSE IF data_trust = "UNTRUSTED" \/ hypothesis = "INVALID" THEN "HALTED"
    ELSE "ALLOWED"

\* DecisionMachine.compute
compute(self, data_trust, hypothesis) ==
    IF data_trust = "DEGRADED" \/ hypothesis = "WEAKENING" THEN "RESTRICTED"
    ELSE IF data_trust = "UNTRUSTED" \/ hypothesis = "INVALID" THEN "HALTED"
    ELSE "ALLOWED"

\* -------------------------------------------------------------- OrderBook

\* a dict as a function on its key set
DictSet(d, k, v) == [x \in (DOMAIN d) \cup {k} |-> IF x = k THEN v ELSE d[x]]
DictPop(d, k) == [x \in (DOMAIN d) \ {k} |-> d[x]]
DictDrop(d, ks) == [x \in (DOMAIN d) \ ks |-> d[x]]
EmptyDict == <<>>

\* sorted(keys)[:n] and sorted(keys, reverse=True)[:n]
RECURSIVE Lowest(_, _)
Lowest(S, n) ==
    IF n <= 0 \/ S = {} THEN {}
    ELSE LET m == CHOOSE x \in S : \A y \in S : x <= y
         IN {m} \cup Lowest(S \ {m}, n - 1)

RECURSIVE Highest(_, _)
Highest(S, n) ==
    IF n <= 0 \/ S = {} THEN {}
    ELSE LET m == CHOOSE x \in S : \A y \in S : x >= y
         IN {m} \cup Highest(S \ {m}, n - 1)

\* OrderBook.__init__
OrderBookInit ==
    [bids |-> EmptyDict, asks |-> EmptyDict,
     last_update_us |-> NULL, last_event_ts |-> NULL]

\* _trim with the bid order reversed: the highest bids are dropped
trimDropsBest(ob, depth_limit) ==
    IF depth_limit <= 0 THEN ob
    ELSE
      LET nb == Cardinality(DOMAIN ob.bids)
          na == Cardinality(DOMAIN ob.asks)
      IN [ob EXCEPT
            !.bids = IF nb > depth_limit
                     THEN DictDrop(@, Highest(DOMAIN @, nb - depth_limit))
                     ELSE @,
            !.asks = IF na > depth_limit
                     THEN DictDrop(@, Highest(DOMAIN @, na - depth_limit))
                     ELSE @]

\* OrderBook._trim
trim(ob, depth_limit) ==
    IF depth_limit <= 0 THEN ob
    ELSE
      LET nb == Cardinality(DOMAIN ob.bids)
          na == Cardinality(DOMAIN ob.asks)
      IN [ob EXCEPT
            !.bids = IF nb > depth_limit
                     THEN DictDrop(@, Lowest(DOMAIN @, nb - depth_limit))
                     ELSE @,
            !.asks = IF na > depth_limit
                     THEN DictDrop(@, Highest(DOMAIN @, na - depth_limit))
                     ELSE @]

\* the book after the write of apply_snapshot, before _trim
snapshot_write(ob, side, price, amount) ==
    IF side = "bid" THEN [ob EXCEPT !.bids = DictSet(@, price, amount)]
    ELSE [ob EXCEPT !.asks = DictSet(@, price, amount)]

\* the book after the write of apply_delta, before _trim
delta_write(ob, side, price, amount) ==
    IF side = "bid"
    THEN [ob EXCEPT !.bids = IF amount <= 0 THEN DictPop(@, price)
                             ELSE DictSet(@, price, amount)]
    ELSE [ob EXCEPT !.asks = IF amount <= 0 THEN DictPop(@, price)
                             ELSE DictSet(@, price, amount)]

\* the tail of apply_snapshot and apply_delta: _trim, then the timestamps
stamp(ob, depth_limit, now_us, event_ts) ==
    [trim(ob, depth_limit) EXCEPT
        !.last_update_us = now_us,
        !.last_event_ts = IF event_ts # NULL THEN event_ts ELSE @]

\* OrderBook.apply_snapshot
apply_snapshot(ob, depth_limit, side, price, amount, now_us, event_ts) ==
    stamp(snapshot_write(ob, side, price, amount), depth_limit, now_us, event_ts)

\* OrderBook.apply_delta
apply_delta(ob, depth_limit, side, price, amount, now_us, event_ts) ==
    stamp(delta_write(ob, side, price, amount), depth_limit, now_us, event_ts)

\* OrderBook.clear
clear(ob) == [ob EXCEPT !.bids = EmptyDict, !.asks = EmptyDict]

\* ------------------------------------------------------ OrderBookReplayer

\* OrderBookReplayer.__init__
LobInit == [orderbook |-> OrderBookInit, snapshot_active |-> FALSE]

\* the test of the rows with the test of the side left out
ValidRowAnySide(ev) ==
    /\ ev.data.price # NULL
    /\ ev.data.amount # NULL

\* the rows on_event applies: a valid side, numeric price and amount
ValidRow(ev) ==
    /\ ev.data.side \in {"bid", "ask"}
    /\ ev.data.price # NULL
    /\ ev.data.amount # NULL

\* the book on_event would start from if every snapshot row cleared it
on_event_baseEachRow(l, ev) ==
    IF ev.data.is_snapshot = 1 THEN clear(l.orderbook) ELSE l.orderbook

\* the book on_event starts from: cleared by the first row of a snapshot
on_event_base(l, ev) ==
    IF ev.data.is_snapshot = 1 /\ ~l.snapshot_active
    THEN clear(l.orderbook) ELSE l.orderbook

\* OrderBookReplayer.on_event
on_event(l, depth_limit, ev, now_us) ==
    IF ev.stream # "orderbook" THEN l
    ELSE IF ~ValidRow(ev) THEN l
    ELSE IF ev.data.is_snapshot = 1
    THEN [orderbook |-> apply_snapshot(on_event_base(l, ev), depth_limit,
                            ev.data.side, ev.data.price, ev.data.amount,
                            now_us, ev.event_ts),
          snapshot_active |-> TRUE]
    ELSE [orderbook |-> apply_delta(l.orderbook, depth_limit,
                            ev.data.side, ev.data.price, ev.data.amount,
                            now_us, ev.event_ts),
          snapshot_active |-> FALSE]

\* --------------------------------------------------------------- Sanitizer

\* dict.get(key): None when the key is absent
Get(d, k) == IF k \in DOMAIN d THEN d[k] ELSE NULL

TickerRequired ==
    <<"funding_timestamp", "funding_rate", "open_interest",
      "last_price", "index_price", "mark_price">>

TickerCached ==
    <<"funding_timestamp", "funding_rate", "predicted_funding_rate",
      "open_interest", "last_price", "index_price", "mark_price">>

\* Sanitizer.__init__: the carry-forward cache (_last_<field>)
SanitizerInit == [k \in SeqRange(TickerCached) |-> NULL]

\* ",".join(keys) and "|".join(reasons)
RECURSIVE Join(_, _)
Join(strs, sep) ==
    IF Len(strs) = 0 THEN ""
    ELSE IF Len(strs) = 1 THEN strs[1]
    ELSE strs[1] \o sep \o Join(Tail(strs), sep)

\* the result of a sanitize call that returns the event it was given
SanResult(sz, status, ev, reason) ==
    [sanitizer |-> sz, status |-> status, ev |-> ev, reason |-> reason,
     raised |-> FALSE]

\* the end of sanitize with a repaired clone that does not copy event_ts
SanFinishNoTs(sz, status, ev, exchange, symbol, data, reasons) ==
    IF status = "REPAIR"
    THEN SanResult(sz, status,
                   [ev EXCEPT !.exchange = exchange, !.symbol = symbol,
                              !.data = data, !.event_ts = NULL],
                   Join(reasons, "|"))
    ELSE SanResult(sz, status, ev, Join(reasons, "|"))

\* the end of sanitize: the reason string, and the repaired clone on REPAIR
SanFinish(sz, status, ev, exchange, symbol, data, reasons) ==
    IF status = "REPAIR"
    THEN SanResult(sz, status,
                   [ev EXCEPT !.exchange = exchange, !.symbol = symbol,
                              !.data = data],
                   Join(reasons, "|"))
    ELSE SanResult(sz, status, ev, Join(reasons, "|"))

\* the TICKER case with fill run before the cache update and without its
\* test that the payload's field is None (a variant the idempotence check
\* must tell apart from the code)
SanTickerEager(sz, ev, exchange, symbol, status, reasons) ==
    LET data == ev.data
        complete_in_payload ==
            \A i \in 1..Len(TickerRequired) : Get(data, TickerRequired[i]) # NULL
        sz1 == [k \in DOMAIN sz |-> IF Get(data, k) # NULL THEN data[k] ELSE sz[k]]
        filled(k) == sz[k] # NULL
        used_cache == \E i \in 1..Len(TickerCached) : filled(TickerCached[i])
        merged == [k \in (DOMAIN data) \cup {x \in DOMAIN sz : filled(x)} |->
                      IF k \in DOMAIN sz /\ filled(k) THEN sz[k] ELSE data[k]]
        IsMissing(k) == Get(merged, k) = NULL
        missing == SelectSeq(TickerRequired, IsMissing)
    IN IF Len(missing) > 0
       THEN SanResult(sz1, "QUARANTINE", ev,
                      "ticker_missing_fields:" \o Join(missing, ","))
       ELSE IF complete_in_payload /\ ~used_cache
       THEN SanFinish(sz1, status, ev, exchange, symbol, data, reasons)
       ELSE SanFinish(sz1, "REPAIR", ev, exchange, symbol, merged,
                      Append(reasons, "repair_ticker_merge_cache"))

\* fill(key, cached): the test under which the cached value is written
TickerFilled(data, sz1, k) == Get(data, k) = NULL /\ sz1[k] # NULL

\* a merge that fills nothing (a variant the carry-forward check must tell
\* apart from the code)
TickerMergedNoFill(data, sz1) == data

\* merged after the seven fill calls
TickerMerged(data, sz1) ==
    [k \in (DOMAIN data) \cup {x \in DOMAIN sz1 : TickerFilled(data, sz1, x)} |->
        IF k \in DOMAIN sz1 /\ TickerFilled(data, sz1, k) THEN sz1[k] ELSE data[k]]

\* missing computed over every tracked field (a variant the quarantine
\* check must tell apart from the code)
TickerMissingTracked(merged) ==
    LET IsMissing(k) == Get(merged, k) = NULL
    IN SelectSeq(TickerCached, IsMissing)

\* missing = [k for k in required if merged.get(k) is None]
TickerMissing(merged) ==
    LET IsMissing(k) == Get(merged, k) = NULL
    IN SelectSeq(TickerRequired, IsMissing)

\* the TICKER case with the cache left as it was when the event is
\* quarantined (a variant the cache check must tell apart from the code)
SanTickerCacheOnPass(sz, ev, exchange, symbol, status, reasons) ==
    LET data == ev.data
        complete_in_payload ==
            \A i \in 1..Len(TickerRequired) : Get(data, TickerRequired[i]) # NULL
        sz1 == [k \in DOMAIN sz |-> IF Get(data, k) # NULL THEN data[k] ELSE sz[k]]
        used_cache == \E i \in 1..Len(TickerCached) :
                          TickerFilled(data, sz1, TickerCached[i])
        merged == TickerMerged(data, sz1)
        missing == TickerMissing(merged)
    IN IF Len(missing) > 0
       THEN SanResult(sz, "QUARANTINE", ev,
                      "ticker_missing_fields:" \o Join(missing, ","))
       ELSE IF complete_in_payload /\ ~used_cache
       THEN SanFinish(sz1, status, ev, exchange, symbol, data, reasons)
       ELSE SanFinish(sz1, "REPAIR", ev, exchange, symbol, merged,
                      Append(reasons, "repair_ticker_merge_cache"))

\* the TICKER case of sanitize
SanTicker(sz, ev, exchange, symbol, status, reasons) ==
    LET data == ev.data
        complete_in_payload ==
            \A i \in 1..Len(TickerRequired) : Get(data, TickerRequired[i]) # NULL
        \* update the cache with the non-null fields of the payload
        sz1 == [k \in DOMAIN sz |-> IF Get(data, k) # NULL THEN data[k] ELSE sz[k]]
        used_cache == \E i \in 1..Len(TickerCached) :
                          TickerFilled(data, sz1, TickerCached[i])
        merged == TickerMerged(data, sz1)
        missing == TickerMissing(merged)
    IN IF Len(missing) > 0
       THEN SanResult(sz1, "QUARANTINE", ev,
                      "ticker_missing_fields:" \o Join(missing, ","))
       ELSE IF complete_in_payload /\ ~used_cache
       THEN SanFinish(sz1, status, ev, exchange, symbol, data, reasons)
       ELSE SanFinish(sz1, "REPAIR", ev, exchange, symbol, merged,
                      Append(reasons, "repair_ticker_merge_cache"))

\* sanitize after the exchange and symbol checks: the match on ev.stream
SanStream(sz, ev, exchange, symbol, status, reasons) ==
    LET data == ev.data IN
    CASE ev.stream = "trades" ->
           IF Get(data, "price") = NULL \/ Get(data, "amount") = NULL
                \/ Get(data, "side") = "None"
           THEN SanResult(sz, "QUARANTINE", ev, "trade_missing_fields")
           ELSE SanFinish(sz, status, ev, exchange, symbol, data, reasons)
      [] ev.stream = "liquidations" ->
           IF Get(data, "price") = NULL \/ Get(data, "amount") = NULL
                \/ Get(data, "side") = "None"
           THEN SanResult(sz, "QUARANTINE", ev, "liq_missing_fields")
           ELSE SanFinish(sz, status, ev, exchange, symbol, data, reasons)
      [] ev.stream = "orderbook" ->
           IF "is_snapshot" \in DOMAIN data /\ data.is_snapshot = NULL
           THEN SanResult(sz, "QUARANTINE", ev, "orderbook_invalid_is_snapshot")
           ELSE IF Get(data, "side") = "None" \/ Get(data, "price") = NULL
                     \/ Get(data, "amount") = NULL
           THEN SanResult(sz, "QUARANTINE", ev, "orderbook_missing_fields")
           ELSE SanFinish(sz, status, ev, exchange, symbol, data, reasons)
      [] ev.stream = "ticker" ->
           SanTicker(sz, ev, exchange, symbol, status, reasons)
      [] OTHER -> SanResult(sz, "QUARANTINE", ev, "unknown_stream")

\* Sanitizer.sanitize.  With exchange None the statement
\* reason.append("repair_exchange_default") names a local that is not bound
\* yet, and the call raises (raised = TRUE) before anything is changed.
sanitize(sz, c, ev) ==
    IF ev.exchange = "None"
    THEN [sanitizer |-> sz, status |-> "REPAIR", ev |-> ev, reason |-> "",
          raised |-> TRUE]
    ELSE IF ev.exchange # c.exchange
    THEN SanResult(sz, "QUARANTINE", ev, "missing_exchange")
    ELSE IF ev.symbol = "None"
    THEN (IF c.symbol # ""
          THEN SanStream(sz, ev, ev.exchange, c.symbol, "REPAIR",
                         <<"repair_symbol_default">>)
          ELSE SanStream(sz, ev, ev.exchange, ev.symbol, "ACCEPT", <<>>))
    ELSE IF ev.symbol # c.symbol
    THEN SanResult(sz, "QUARANTINE", ev, "missing_symbol")
    ELSE SanStream(sz, ev, ev.exchange, ev.symbol, "ACCEPT", <<>>)

\* ----------------------------------------------------------------- BookTop

SetMax(S) == CHOOSE x \in S : \A y \in S : x >= y
SetMin(S) == CHOOSE x \in S : \A y \in S : x <= y

\* OrderBook.top / OrderBookReplayer.snapshot: best_bid and best_ask; mid is
\* (best_bid + best_ask) / 2 and spread is best_ask - best_bid when both exist
top(ob) ==
    [best_bid |-> IF DOMAIN ob.bids = {} THEN NULL ELSE SetMax(DOMAIN ob.bids),
     best_ask |-> IF DOMAIN ob.asks = {} THEN NULL ELSE SetMin(DOMAIN ob.asks)]

\* --------------------------------------------------------- number formatting

Abs(x) == IF x < 0 THEN 0 - x ELSE x

RECURSIVE Pow10(_)
Pow10(k) == IF k = 0 THEN 1 ELSE 10 * Pow10(k - 1)

RECURSIVE Digits(_, _)
Digits(n, k) == IF k = 0 THEN "" ELSE Digits(n \div 10, k - 1) \o ToString(n % 10)

\* f"{num/den:.<k>f}" for num >= 0, den > 0 (rounded half up)
Fixed(num, den, k) ==
    LET q == (2 * num * Pow10(k) + den) \div (2 * den)
    IN ToString(q \div Pow10(k)) \o "." \o Digits(q % Pow10(k), k)

\* ---------------------------------------------------------- DataTrustPolicy

\* Stream, in the order of the enum (the iteration order of the dicts)
Streams == <<"trades", "orderbook", "liquidations", "ticker">>
StreamSet == SeqRange(Streams)

\* DataTrustPolicy.__init__
DataTrustInit ==
    [align_window |-> [st \in StreamSet |-> <<>>],
     san_quarantine_window |-> [st \in StreamSet |-> <<>>],
     align_emitted_sum |-> [st \in StreamSet |-> 0],
     align_late_sum |-> [st \in StreamSet |-> 0],
     align_forced_sum |-> [st \in StreamSet |-> 0],
     last_buffer_len |-> [st \in StreamSet |-> 0],
     san_quarantine_sum |-> [st \in StreamSet |-> 0],
     last_trade_price |-> NULL,
     state_by_stream |-> [st \in StreamSet |-> "TRUSTED"],
     reason_by_stream |-> [st \in StreamSet |-> ""]]

\* DataTrustPolicy._trim_align
RECURSIVE trim_align(_, _, _)
trim_align(t, c, stream) ==
    LET w == t.align_window[stream] IN
    IF Len(w) > c.window_events
    THEN trim_align(
            [t EXCEPT !.align_window[stream] = Tail(w),
                      !.align_emitted_sum[stream] = @ - w[1][1],
                      !.align_late_sum[stream] = @ - w[1][2],
                      !.align_forced_sum[stream] = @ - w[1][3]],
            c, stream)
    ELSE t

\* _trim_san that pops without the subtraction from the running sum
RECURSIVE trim_sanKeepsSum(_, _, _)
trim_sanKeepsSum(t, c, stream) ==
    LET w == t.san_quarantine_window[stream] IN
    IF Len(w) > c.window_events
    THEN trim_sanKeepsSum([t EXCEPT !.san_quarantine_window[stream] = Tail(w)],
                          c, stream)
    ELSE t

\* DataTrustPolicy._trim_san
RECURSIVE trim_san(_, _, _)
trim_san(t, c, stream) ==
    LET w == t.san_quarantine_window[stream] IN
    IF Len(w) > c.window_events
    THEN trim_san(
            [t EXCEPT !.san_quarantine_window[stream] = Tail(w),
                      !.san_quarantine_sum[stream] = @ - w[1]],
            c, stream)
    ELSE t

\* DataTrustPolicy.on_batch
on_batch(t, c, stream, align_stats) ==
    LET forced == IF align_stats.forced_flush THEN 1 ELSE 0 IN
    trim_align(
        [t EXCEPT !.align_window[stream] =
                      Append(@, <<align_stats.emitted, align_stats.late, forced,
                                  align_stats.buffer_len>>),
                  !.align_emitted_sum[stream] = @ + align_stats.emitted,
                  !.align_late_sum[stream] = @ + align_stats.late,
                  !.align_forced_sum[stream] = @ + forced,
                  !.last_buffer_len[stream] = align_stats.buffer_len],
        c, stream)

\* one optional reason of a list of reasons
Opt(cond, reason) == IF cond THEN <<reason>> ELSE <<>>

\* DataTrustPolicy._eval_stream, on the state left by on_event's window
\* update.  Rates are compared as fractions; the rate thresholds of the
\* configuration are in percent.  _last_event_ts and _last_event_id are never
\* written, so out_of_order_ts and duplicate_event are never appended.
eval_stream(t, c, tp, stream, sanitization, ev) ==
    LET san_total == Len(t.san_quarantine_window[stream])
        q_num == IF san_total > 0 THEN t.san_quarantine_sum[stream] ELSE 0
        q_den == IF san_total > 0 THEN san_total ELSE 1
        emitted_n == IF t.align_emitted_sum[stream] > 1
                   THEN t.align_emitted_sum[stream] ELSE 1
        late == t.align_late_sum[stream]
        forced == t.align_forced_sum[stream]
        buf == t.last_buffer_len[stream]
        AtLeast(num, den, pct) == 100 * num >= pct * den
        Rate(name, num, den, pct) ==
            name \o "=" \o Fixed(num, den, 4) \o ">=" \o Fixed(pct, 100, 2)
        both == tp.best_bid # NULL /\ tp.best_ask # NULL
        mid2 == tp.best_bid + tp.best_ask
        price == Get(ev.data, "price")
        is_ob == stream = "orderbook" /\ both
        is_tr == stream = "trades" /\ price # NULL
        diff_num == Abs(2 * price - mid2) * 10000
        fat_untrusted == is_tr /\ both
                            /\ diff_num >= c.fat_finger_untrusted_bps * mid2
        fat_degraded == is_tr /\ both /\ ~fat_untrusted
                            /\ diff_num >= c.fat_finger_degraded_bps * mid2
        jump == is_tr /\ t.last_trade_price # NULL /\ t.last_trade_price > 0
                  /\ Abs(price - t.last_trade_price) * 10000
                        >= c.trade_jump_degraded_bps * t.last_trade_price
        spread == is_ob /\ mid2 > 0
                    /\ (tp.best_ask - tp.best_bid) * 20000
                          > c.spread_explode_bps * mid2
        untrusted_reasons ==
            Opt(AtLeast(q_num, q_den, c.quarantine_untrusted_rate),
                Rate("q_rate", q_num, q_den, c.quarantine_untrusted_rate))
            \o Opt(AtLeast(late, emitted_n, c.late_untrusted_rate),
                   Rate("late_rate", late, emitted_n, c.late_untrusted_rate))
            \o Opt(AtLeast(forced, emitted_n, c.forced_flush_untrusted_rate),
                   Rate("forced_rate", forced, emitted_n,
                        c.forced_flush_untrusted_rate))
            \o Opt(buf >= c.buffer_len_untrusted,
                   "buffer_len=" \o ToString(buf) \o ">="
                        \o ToString(c.buffer_len_untrusted))
            \o Opt(is_ob /\ tp.best_bid >= tp.best_ask, "crossed_market")
            \o Opt(fat_untrusted,
                   "fat_finger_mid_bps=" \o Fixed(diff_num, mid2, 1))
        degraded_reasons ==
            Opt(sanitization = "QUARANTINE", "quarantine")
            \o Opt(AtLeast(late, emitted_n, c.late_degraded_rate),
                   Rate("late_rate", late, emitted_n, c.late_degraded_rate))
            \o Opt(AtLeast(forced, emitted_n, c.forced_flush_degraded_rate),
                   Rate("forced_rate", forced, emitted_n,
                        c.forced_flush_degraded_rate))
            \o Opt(buf >= c.buffer_len_degraded,
                   "buffer_len=" \o ToString(buf) \o ">="
                        \o ToString(c.buffer_len_degraded))
            \o Opt(spread,
                   "spread_explode_bps="
                        \o Fixed((tp.best_ask - tp.best_bid) * 20000, mid2, 1))
            \o Opt(fat_degraded,
                   "fat_finger_mid_bps=" \o Fixed(diff_num, mid2, 1))
            \o Opt(jump,
                   "trade_jump_bps="
                        \o Fixed(Abs(price - t.last_trade_price) * 10000,
                                 t.last_trade_price, 1))
    IN [last_trade_price |-> IF is_tr THEN price ELSE t.last_trade_price,
        untrusted_reasons |-> untrusted_reasons,
        degraded_reasons |-> degraded_reasons,
        state |-> IF Len(untrusted_reasons) > 0 THEN "UNTRUSTED"
                  ELSE IF Len(degraded_reasons) > 0 THEN "DEGRADED"
                  ELSE "TRUSTED",
        reason |-> IF Len(untrusted_reasons) > 0
                   THEN Join(untrusted_reasons, " | ")
                   ELSE Join(degraded_reasons, " | ")]

\* the (stream, reason) list _reduce_global joins: f"{s.value}:{r}" for the
\* streams in `st` whose reason is not empty
ReasonsOf(t, st) ==
    LET Has(x) == t.state_by_stream[x] = st /\ t.reason_by_stream[x] # ""
        keys == SelectSeq(Streams, Has)
    IN Join([i \in 1..Len(keys) |-> keys[i] \o ":" \o t.reason_by_stream[keys[i]]],
            ", ")

\* _reduce_global with the DEGRADED streams looked for first
reduce_globalDegradedFirst(t) ==
    IF \E x \in StreamSet : t.state_by_stream[x] = "DEGRADED"
    THEN [state |-> "DEGRADED",
          reason |-> IF ReasonsOf(t, "DEGRADED") # ""
                     THEN ReasonsOf(t, "DEGRADED") ELSE "degraded"]
    ELSE IF \E x \in StreamSet : t.state_by_stream[x] = "UNTRUSTED"
    THEN [state |-> "UNTRUSTED",
          reason |-> IF ReasonsOf(t, "UNTRUSTED") # ""
                     THEN ReasonsOf(t, "UNTRUSTED") ELSE "untrusted"]
    ELSE [state |-> "TRUSTED", reason |-> ""]

\* DataTrustPolicy._reduce_global
reduce_global(t) ==
    IF \E x \in StreamSet : t.state_by_stream[x] = "UNTRUSTED"
    THEN [state |-> "UNTRUSTED",
          reason |-> IF ReasonsOf(t, "UNTRUSTED") # ""
                     THEN ReasonsOf(t, "UNTRUSTED") ELSE "untrusted"]
    ELSE IF \E x \in StreamSet : t.state_by_stream[x] = "DEGRADED"
    THEN [state |-> "DEGRADED",
          reason |-> IF ReasonsOf(t, "DEGRADED") # ""
                     THEN ReasonsOf(t, "DEGRADED") ELSE "degraded"]
    ELSE [state |-> "TRUSTED", reason |-> ""]

\* on_event that keeps the verdict of the evaluated stream alone and clears
\* the stored verdicts of the other streams (a variant the frame check must
\* tell apart from the code)
trust_on_eventClearsOthers(t, c, tp, stream, sanitization, ev) ==
    LET is_q == IF sanitization = "QUARANTINE" THEN 1 ELSE 0
        t1 == trim_san(
                [t EXCEPT !.san_quarantine_window[stream] = Append(@, is_q),
                          !.san_quarantine_sum[stream] = @ + is_q],
                c, stream)
        e == eval_stream(t1, c, tp, stream, sanitization, ev)
        t2 == [t1 EXCEPT !.last_trade_price = e.last_trade_price,
                         !.state_by_stream =
                             [x \in StreamSet |->
                                 IF x = stream THEN e.state ELSE "TRUSTED"],
                         !.reason_by_stream =
                             [x \in StreamSet |->
                                 IF x = stream THEN e.reason ELSE ""]]
    IN [trust |-> t2, state |-> reduce_global(t2).state,
        reason |-> reduce_global(t2).reason]

\* DataTrustPolicy.on_event: the new policy, the global verdict and reason
trust_on_event(t, c, tp, stream, sanitization, ev) ==
    LET is_q == IF sanitization = "QUARANTINE" THEN 1 ELSE 0
        t1 == trim_san(
                [t EXCEPT !.san_quarantine_window[stream] = Append(@, is_q),
                          !.san_quarantine_sum[stream] = @ + is_q],
                c, stream)
        e == eval_stream(t1, c, tp, stream, sanitization, ev)
        t2 == [t1 EXCEPT !.last_trade_price = e.last_trade_price,
                         !.state_by_stream[stream] = e.state,
                         !.reason_by_stream[stream] = e.reason]
    IN [trust |-> t2, state |-> reduce_global(t2).state,
        reason |-> reduce_global(t2).reason]

\* --------------------------------------------------------- HypothesisPolicy

\* HypothesisPolicy.__init__
HypothesisInit ==
    [state |-> "INVALID", stable_since_us |-> NULL,
     last_mark |-> NULL, last_index |-> NULL, last_last |-> NULL]

\* HypothesisPolicy._collect_prices: the witnesses in insertion order, as
\* <<key, 2 * price>> (lob_mid is (best_bid + best_ask) / 2)
collect_prices(h, tp, ev) ==
    Opt(tp.best_bid # NULL /\ tp.best_ask # NULL,
        <<"lob_mid", tp.best_bid + tp.best_ask>>)
    \o Opt(h.last_mark # NULL, <<"mark", 2 * h.last_mark>>)
    \o Opt(h.last_index # NULL, <<"index", 2 * h.last_index>>)
    \o Opt(h.last_last # NULL, <<"last", 2 * h.last_last>>)
    \o Opt(ev.stream \in {"trades", "liquidations"} /\ ev.data.price # NULL,
           <<ev.stream, 2 * ev.data.price>>)

\* the loop of _consensus over the pairs i < j from (i, j) on: the worst bps
\* so far is num / den (-1 at the start), replaced only by a strictly larger
RECURSIVE WorstFrom(_, _, _, _)
WorstFrom(ks, i, j, w) ==
    IF i >= Len(ks) THEN w
    ELSE IF j > Len(ks) THEN WorstFrom(ks, i + 1, i + 2, w)
    ELSE LET num == Abs(ks[i][2] - ks[j][2]) * 10000
             den == Abs(ks[j][2])
             w1 == IF num * w.den > w.num * den
                   THEN [num |-> num, den |-> den,
                         pair |-> ks[i][1] \o "~" \o ks[j][1]]
                   ELSE w
         IN WorstFrom(ks, i, j + 1, w1)

\* HypothesisPolicy._consensus
consensus(prices) ==
    LET Positive(kv) == kv[2] > 0
        keys == SelectSeq(prices, Positive)
    IN IF Len(keys) < Len(Streams)
       THEN [ok |-> FALSE, sources |-> Len(keys)]
       ELSE [ok |-> TRUE, sources |-> Len(keys),
             worst |-> WorstFrom(keys, 1, 2,
                                 [num |-> 0 - 1, den |-> 1, pair |-> "None"])]

\* verify's match on ev.stream: the ticker prices kept, and the prefix
verify_update(h, ev) ==
    IF ev.stream = "ticker"
    THEN [h EXCEPT
            !.last_mark = IF ev.data.mark_price # NULL
                          THEN ev.data.mark_price ELSE @,
            !.last_index = IF ev.data.index_price # NULL
                           THEN ev.data.index_price ELSE @,
            !.last_last = IF ev.data.last_price # NULL
                          THEN ev.data.last_price ELSE @]
    ELSE h

trigger_prefix(ev) ==
    CASE ev.stream = "ticker" -> "tickers"
      [] ev.stream = "orderbook" -> "orderbook"
      [] ev.stream = "liquidations" -> "liquidations"
      [] ev.stream = "trades" -> "trade"
      [] OTHER -> ""

\* verify with the test of line 84 left out: VALID on the first consensus
\* below the weak threshold
verifyNoWait(h, c, tp, ev, now_us) ==
    LET h1 == verify_update(h, ev)
        prefix == trigger_prefix(ev)
        cons == consensus(collect_prices(h1, tp, ev))
        worst == cons.worst
        diverged == prefix \o ":worst_bps=" \o Fixed(worst.num, worst.den, 1)
                      \o " pair=" \o worst.pair
                      \o " sources=" \o ToString(cons.sources)
        since == IF h1.stable_since_us = NULL THEN now_us
                 ELSE h1.stable_since_us
    IN IF ~cons.ok
       THEN [hypo |-> h1, state |-> h1.state,
             reason |-> prefix \o ":no_change:insufficient_sources="
                          \o ToString(cons.sources)]
       ELSE IF worst.num >= c.invalid_price_diverge_bps * worst.den
       THEN [hypo |-> [h1 EXCEPT !.stable_since_us = NULL, !.state = "INVALID"],
             state |-> "INVALID", reason |-> diverged]
       ELSE IF worst.num >= c.weak_price_diverge_bps * worst.den
       THEN [hypo |-> [h1 EXCEPT !.stable_since_us = NULL,
                                 !.state = "WEAKENING"],
             state |-> "WEAKENING", reason |-> diverged]
       ELSE [hypo |-> [h1 EXCEPT !.stable_since_us = since, !.state = "VALID"],
             state |-> "VALID",
             reason |-> prefix \o ":stable_us=" \o ToString(now_us - since)]

\* verify with the stable window forgotten when the sources are too few
verifyResetsOnGap(h, c, tp, ev, now_us) ==
    LET h1 == verify_update(h, ev)
        prefix == trigger_prefix(ev)
        cons == consensus(collect_prices(h1, tp, ev))
        worst == cons.worst
        diverged == prefix \o ":worst_bps=" \o Fixed(worst.num, worst.den, 1)
                      \o " pair=" \o worst.pair
                      \o " sources=" \o ToString(cons.sources)
        since == IF h1.stable_since_us = NULL THEN now_us
                 ELSE h1.stable_since_us
        stable_duration == now_us - since
    IN IF ~cons.ok
       THEN [hypo |-> [h1 EXCEPT !.stable_since_us = NULL],
             state |-> h1.state,
             reason |-> prefix \o ":no_change:insufficient_sources="
                          \o ToString(cons.sources)]
       ELSE IF worst.num >= c.invalid_price_diverge_bps * worst.den
       THEN [hypo |-> [h1 EXCEPT !.stable_since_us = NULL, !.state = "INVALID"],
             state |-> "INVALID", reason |-> diverged]
       ELSE IF worst.num >= c.weak_price_diverge_bps * worst.den
       THEN [hypo |-> [h1 EXCEPT !.stable_since_us = NULL,
                                 !.state = "WEAKENING"],
             state |-> "WEAKENING", reason |-> diverged]
       ELSE IF stable_duration < c.stable_min_duration_us
       THEN [hypo |-> [h1 EXCEPT !.stable_since_us = since],
             state |-> h1.state,
             reason |-> prefix \o ":stabilizing elapsed_us="
                          \o ToString(stable_duration) \o " required_us="
                          \o ToString(c.stable_min_duration_us)]
       ELSE [hypo |-> [h1 EXCEPT !.stable_since_us = since, !.state = "VALID"],
             state |-> "VALID",
             reason |-> prefix \o ":stable_us=" \o ToString(stable_duration)]

\* verify with the stable window kept open when the state becomes WEAKENING
verifyKeepsWindow(h, c, tp, ev, now_us) ==
    LET h1 == verify_update(h, ev)
        prefix == trigger_prefix(ev)
        cons == consensus(collect_prices(h1, tp, ev))
        worst == cons.worst
        diverged == prefix \o ":worst_bps=" \o Fixed(worst.num, worst.den, 1)
                      \o " pair=" \o worst.pair
                      \o " sources=" \o ToString(cons.sources)
        since == IF h1.stable_since_us = NULL THEN now_us
                 ELSE h1.stable_since_us
        stable_duration == now_us - since
    IN IF ~cons.ok
       THEN [hypo |-> h1, state |-> h1.state,
             reason |-> prefix \o ":no_change:insufficient_sources="
                          \o ToString(cons.sources)]
       ELSE IF worst.num >= c.invalid_price_diverge_bps * worst.den
       THEN [hypo |-> [h1 EXCEPT !.stable_since_us = NULL, !.state = "INVALID"],
             state |-> "INVALID", reason |-> diverged]
       ELSE IF worst.num >= c.weak_price_diverge_bps * worst.den
       THEN [hypo |-> [h1 EXCEPT !.state = "WEAKENING"],
             state |-> "WEAKENING", reason |-> diverged]
       ELSE IF stable_duration < c.stable_min_duration_us
       THEN [hypo |-> [h1 EXCEPT !.stable_since_us = since],
             state |-> h1.state,
             reason |-> prefix \o ":stabilizing elapsed_us="
                          \o ToString(stable_duration) \o " required_us="
                          \o ToString(c.stable_min_duration_us)]
       ELSE [hypo |-> [h1 EXCEPT !.stable_since_us = since, !.state = "VALID"],
             state |-> "VALID",
             reason |-> prefix \o ":stable_us=" \o ToString(stable_duration)]

\* HypothesisPolicy.verify: the new policy, and the state and reason returned
verify(h, c, tp, ev, now_us) ==
    LET h1 == verify_update(h, ev)
        prefix == trigger_prefix(ev)
        cons == consensus(collect_prices(h1, tp, ev))
        worst == cons.worst
        diverged == prefix \o ":worst_bps=" \o Fixed(worst.num, worst.den, 1)
                      \o " pair=" \o worst.pair
                      \o " sources=" \o ToString(cons.sources)
        since == IF h1.stable_since_us = NULL THEN now_us
                 ELSE h1.stable_since_us
        stable_duration == now_us - since
    IN IF ~cons.ok
       THEN [hypo |-> h1, state |-> h1.state,
             reason |-> prefix \o ":no_change:insufficient_sources="
                          \o ToString(cons.sources)]
       ELSE IF worst.num >= c.invalid_price_diverge_bps * worst.den
       THEN [hypo |-> [h1 EXCEPT !.stable_since_us = NULL, !.state = "INVALID"],
             state |-> "INVALID", reason |-> diverged]
       ELSE IF worst.num >= c.weak_price_diverge_bps * worst.den
       THEN [hypo |-> [h1 EXCEPT !.stable_since_us = NULL,
                                 !.state = "WEAKENING"],
             state |-> "WEAKENING", reason |-> diverged]
       ELSE IF stable_duration < c.stable_min_duration_us
       THEN [hypo |-> [h1 EXCEPT !.stable_since_us = since],
             state |-> h1.state,
             reason |-> prefix \o ":stabilizing elapsed_us="
                          \o ToString(stable_duration) \o " required_us="
                          \o ToString(c.stable_min_duration_us)]
       ELSE [hypo |-> [h1 EXCEPT !.stable_since_us = since, !.state = "VALID"],
             state |-> "VALID",
             reason |-> prefix \o ":stable_us=" \o ToString(stable_duration)]

\* ---------------------------------------------------- DwellTracker, EngineStats

\* DwellTracker(current, enter_us)
DwellTracker(current, enter_us) ==
    [current |-> current, enter_us |-> enter_us,
     total_us |-> EmptyDict, entries |-> EmptyDict]

\* the accumulation shared by switch and close
DwellFlush(d, now_us) ==
    LET dt == IF now_us - d.enter_us > 0 THEN now_us - d.enter_us ELSE 0
        total == IF d.current \in DOMAIN d.total_us
                 THEN d.total_us[d.current] ELSE 0
        n == IF d.current \in DOMAIN d.entries
             THEN d.entries[d.current] ELSE 0
    IN [d EXCEPT !.total_us = DictSet(@, d.current, total + dt),
                 !.entries = DictSet(@, d.current, n + 1)]

\* DwellTracker.switch
switch(d, new, now_us) ==
    IF new = d.current THEN d
    ELSE [DwellFlush(d, now_us) EXCEPT !.current = new, !.enter_us = now_us]

\* DwellTracker.close
close(d, now_us) == DwellFlush(d, now_us)

\* EngineStats() followed by init_dwell(now_us, san, trust, hypo, decision)
StatsInit(now_us, san, dt, hy, dec) ==
    [total_events |-> 0, quarantine_events |-> 0, repair_events |-> 0,
     trusted_events |-> 0, degraded_events |-> 0, untrusted_events |-> 0,
     allowed_events |-> 0, restricted_events |-> 0, halted_events |-> 0,
     valid_hypo_events |-> 0, weakening_hypo_events |-> 0,
     invalid_hypo_events |-> 0,
     san_dwell |-> DwellTracker(san, now_us),
     trust_dwell |-> DwellTracker(dt, now_us),
     hypo_dwell |-> DwellTracker(hy, now_us),
     decision_dwell |-> DwellTracker(dec, now_us)]

Inc(cond) == IF cond THEN 1 ELSE 0

\* on_event without the HALTED case of its match on decision
stats_on_event_NoHalted(st, san, dt, hy, dec) ==
    [st EXCEPT
        !.total_events = @ + 1,
        !.repair_events = @ + Inc(san = "REPAIR"),
        !.quarantine_events = @ + Inc(san = "QUARANTINE"),
        !.trusted_events = @ + Inc(dt = "TRUSTED"),
        !.degraded_events = @ + Inc(dt = "DEGRADED"),
        !.untrusted_events = @ + Inc(dt = "UNTRUSTED"),
        !.allowed_events = @ + Inc(dec = "ALLOWED"),
        !.restricted_events = @ + Inc(dec = "RESTRICTED"),
        !.valid_hypo_events = @ + Inc(hy = "VALID"),
        !.weakening_hypo_events = @ + Inc(hy = "WEAKENING"),
        !.invalid_hypo_events = @ + Inc(hy = "INVALID")]

\* EngineStats.on_event
stats_on_event(st, san, dt, hy, dec) ==
    [st EXCEPT
        !.total_events = @ + 1,
        !.repair_events = @ + Inc(san = "REPAIR"),
        !.quarantine_events = @ + Inc(san = "QUARANTINE"),
        !.trusted_events = @ + Inc(dt = "TRUSTED"),
        !.degraded_events = @ + Inc(dt = "DEGRADED"),
        !.untrusted_events = @ + Inc(dt = "UNTRUSTED"),
        !.allowed_events = @ + Inc(dec = "ALLOWED"),
        !.restricted_events = @ + Inc(dec = "RESTRICTED"),
        !.halted_events = @ + Inc(dec = "HALTED"),
        !.valid_hypo_events = @ + Inc(hy = "VALID"),
        !.weakening_hypo_events = @ + Inc(hy = "WEAKENING"),
        !.invalid_hypo_events = @ + Inc(hy = "INVALID")]

\* DwellTracker.snapshot
dwell_snapshot(d) ==
    [total_ts |-> d.total_us,
     avg_ts |-> [k \in DOMAIN d.total_us |->
                    d.total_us[k] \div
                      (IF k \in DOMAIN d.entries /\ d.entries[k] > 1
                       THEN d.entries[k] ELSE 1)]]

\* EngineStats.finalize: the stats it leaves and the summary it returns
finalize(st, now_us) ==
    LET st1 == [st EXCEPT !.trust_dwell = close(@, now_us),
                          !.hypo_dwell = close(@, now_us),
                          !.decision_dwell = close(@, now_us)]
    IN [stats |-> st1,
        summary |->
          [total_events |-> st1.total_events,
           quarantine_events |-> st1.quarantine_events,
           repair_events |-> st1.repair_events,
           events_by_state |->
             [data_trust |-> [TRUSTED |-> st1.trusted_events,
                              DEGRADED |-> st1.degraded_events,
                              UNTRUSTED |-> st1.untrusted_events],
              hypothesis |-> [VALID |-> st1.valid_hypo_events,
                              WEAKENING |-> st1.weakening_hypo_events,
                              INVALID |-> st1.invalid_hypo_events],
              decision |-> [ALLOWED |-> st1.allowed_events,
                            RESTRICTED |-> st1.restricted_events,
                            HALTED |-> st1.halted_events]],
           dwell |-> [sanitization |-> dwell_snapshot(st1.san_dwell),
                      data_trust |-> dwell_snapshot(st1.trust_dwell),
                      hypothesis |-> dwell_snapshot(st1.hypo_dwell),
                      decision |-> dwell_snapshot(st1.decision_dwell)]]]

\* ------------------------------------------------------ SingleDecisionEngine

\* EngineState()
EngineStateInit ==
    [sanitization |-> "QUARANTINE", data_trust |-> "DEGRADED",
     hypothesis |-> "WEAKENING", decision |-> "RESTRICTED"]

\* OutputWriter.__init__
WriterInit == [state_transitions |-> <<>>, decisions |-> <<>>]

\* the engine's components as one record, for the helpers below
World(sz, l, t, h, es, dm, st, w) ==
    [sanitizer |-> sz, lob |-> l, trust |-> t, hypo |-> h, state |-> es,
     decision |-> dm, stats |-> st, writer |-> w]

\* SingleDecisionEngine._set_sanitization
set_sanitization(W, s, now_ts) ==
    IF s = W.state.sanitization THEN W
    ELSE [W EXCEPT !.state.sanitization = s,
                   !.stats.san_dwell = switch(@, s, now_ts)]

\* SingleDecisionEngine._set_data_trust
set_data_trust(W, s, now_ts) ==
    IF s = W.state.data_trust THEN W
    ELSE [W EXCEPT !.state.data_trust = s,
                   !.stats.trust_dwell = switch(@, s, now_ts)]

\* SingleDecisionEngine._set_hypothesis
set_hypothesis(W, s, now_ts) ==
    IF s = W.state.hypothesis THEN W
    ELSE [W EXCEPT !.state.hypothesis = s,
                   !.stats.hypo_dwell = switch(@, s, now_ts)]

\* SingleDecisionEngine._emit_state_transition
emit_state_transition(W, now_ts, trigger) ==
    [W EXCEPT !.writer.state_transitions =
        Append(@, [ts |-> now_ts, data_trust |-> W.state.data_trust,
                   hypothesis |-> W.state.hypothesis,
                   decision |-> W.state.decision, trigger |-> trigger])]

\* SingleDecisionEngine._emit_decision
emit_decision(W, now_ts, prev_decision_ts, prev_decision, prev_reason) ==
    [W EXCEPT !.writer.decisions =
        Append(@, [ts |-> now_ts, action |-> prev_decision,
                   reason |-> prev_reason,
                   duration_ms |-> IF prev_decision_ts # NULL
                                   THEN (now_ts - prev_decision_ts) \div 1000
                                   ELSE 0])]

\* _set_decision with the STATE_TRANSITION record written only when the
\* DECISION record is
set_decisionOnChange(W, now_ts, trigger) ==
    LET d == compute(W.decision, W.state.data_trust, W.state.hypothesis)
    IN IF d # W.state.decision \/ trigger # W.decision.last_reason
       THEN emit_state_transition(
              emit_decision(
                [W EXCEPT !.state.decision = d,
                          !.decision.last_ts = now_ts,
                          !.decision.last_reason = trigger,
                          !.stats.decision_dwell = switch(@, d, now_ts)],
                now_ts, W.decision.last_ts, W.state.decision,
                W.decision.last_reason),
              now_ts, trigger)
       ELSE W

\* SingleDecisionEngine._set_decision: the new world; the decision returned
\* is compute(...) of the world it was given
set_decision(W, now_ts, trigger) ==
    LET d == compute(W.decision, W.state.data_trust, W.state.hypothesis)
        W1 == IF d # W.state.decision \/ trigger # W.decision.last_reason
              THEN emit_decision(
                     [W EXCEPT !.state.decision = d,
                               !.decision.last_ts = now_ts,
                               !.decision.last_reason = trigger,
                               !.stats.decision_dwell = switch(@, d, now_ts)],
                     now_ts, W.decision.last_ts, W.state.decision,
                     W.decision.last_reason)
              ELSE W
    IN emit_state_transition(W1, now_ts, trigger)

\* the trigger ingest composes from the three reasons
ingest_trigger(hypothesis_trigger, data_trust_trigger, sanitization_trigger) ==
    Join(Opt(hypothesis_trigger # "", "hypothesis:" \o hypothesis_trigger)
         \o Opt(data_trust_trigger # "", "data_trust:" \o data_trust_trigger)
         \o Opt(sanitization_trigger # "",
                "sanitization:" \o sanitization_trigger),
         " | ")

\* the locals of an ingest call: now_ts, what is left of aligned_evs (its
\* head is aligned_ev), and the loop body's locals
IngInit ==
    [pc |-> "idle", now_ts |-> NULL, aligned_evs |-> <<>>,
     sanitization |-> "None", fixed_ev |-> "None",
     sanitization_trigger |-> "", data_trust |-> "None",
     data_trust_trigger |-> "", hypothesis |-> "None",
     hypothesis_trigger |-> "", decision |-> "None"]

\* ingest, lines 65-69: the stamp, align and on_batch
ingest_begin(al, t, li, c, ev, now_ts) ==
    LET r == align(al, c, ev) IN
    [aligner |-> r.aligner,
     trust |-> on_batch(t, c, ev.stream, r.stats),
     last_ingest_ts_by_stream |-> [li EXCEPT ![ev.stream] = now_ts],
     aligned_evs |-> r.out]

\* ingest, lines 74-75: sanitize and _set_sanitization; raised when sanitize
\* raises, which ends the ingest call with the rest of aligned_evs dropped
ingest_sanitize(W, c, L) ==
    LET san == sanitize(W.sanitizer, c, Head(L.aligned_evs)) IN
    [raised |-> san.raised,
     world |-> IF san.raised THEN W
               ELSE set_sanitization([W EXCEPT !.sanitizer = san.sanitizer],
                                     san.status, L.now_ts),
     locals |-> IF san.raised THEN L
                ELSE [L EXCEPT !.sanitization = san.status,
                               !.fixed_ev = san.ev,
                               !.sanitization_trigger = san.reason]]

\* ingest, lines 77-78 with the gate left out: every ORDERBOOK event reaches
\* the replayer
ingest_replayNoGate(W, c, L) ==
    LET aligned_ev == Head(L.aligned_evs) IN
    [world |-> IF aligned_ev.stream = "orderbook"
               THEN [W EXCEPT !.lob = on_event(@, c.depth_limit, aligned_ev,
                                               L.now_ts)]
               ELSE W,
     locals |-> L]

\* ingest, lines 77-78: the replayer, for ORDERBOOK events not quarantined
ingest_replay(W, c, L) ==
    LET aligned_ev == Head(L.aligned_evs) IN
    [world |-> IF aligned_ev.stream = "orderbook"
                    /\ L.sanitization # "QUARANTINE"
               THEN [W EXCEPT !.lob = on_event(@, c.depth_limit, aligned_ev,
                                               L.now_ts)]
               ELSE W,
     locals |-> L]

\* ingest, lines 80-81: data_trust.on_event and _set_data_trust
ingest_data_trust(W, c, L) ==
    LET tr == trust_on_event(W.trust, c, top(W.lob.orderbook),
                             L.fixed_ev.stream, L.sanitization,
                             Head(L.aligned_evs)) IN
    [world |-> set_data_trust([W EXCEPT !.trust = tr.trust], tr.state,
                              L.now_ts),
     locals |-> [L EXCEPT !.data_trust = tr.state,
                          !.data_trust_trigger = tr.reason]]

\* ingest, lines 83-84: hypothesis.verify and _set_hypothesis
ingest_verify(W, c, L) ==
    LET hy == verify(W.hypo, c, top(W.lob.orderbook), L.fixed_ev, L.now_ts) IN
    [world |-> set_hypothesis([W EXCEPT !.hypo = hy.hypo], hy.state, L.now_ts),
     locals |-> [L EXCEPT !.hypothesis = hy.state,
                          !.hypothesis_trigger = hy.reason]]

\* ingest, lines 86-94: the trigger and _set_decision
ingest_set_decision(W, c, L) ==
    LET trigger == ingest_trigger(L.hypothesis_trigger, L.data_trust_trigger,
                                  L.sanitization_trigger) IN
    [world |-> set_decision(W, L.now_ts, trigger),
     locals |-> [L EXCEPT !.decision =
                    compute(W.decision, W.state.data_trust, W.state.hypothesis)]]

\* ingest, line 95: stats.on_event, and the loop's step to the next event
ingest_stats(W, c, L) ==
    [world |-> [W EXCEPT !.stats =
                   stats_on_event(@, L.sanitization, L.data_trust,
                                  L.hypothesis, L.decision)],
     locals |-> IF Len(L.aligned_evs) = 1 THEN IngInit
                ELSE [IngInit EXCEPT !.pc = "sanitize",
                                     !.now_ts = L.now_ts,
                                     !.aligned_evs = Tail(L.aligned_evs)]]

\* the stall threshold of a stream
stall_threshold_us(c, stream) ==
    CASE stream = "trades" -> c.trades_stall_threshold_us
      [] stream = "orderbook" -> c.orderbook_stall_threshold_us
      [] stream = "liquidations" -> c.liquidations_stall_threshold_us
      [] stream = "ticker" -> c.ticker_stall_threshold_us

\* the scan of tick with a stream that has no last ingest time taken as
\* last ingested at time zero (a variant the never-ingested check must tell
\* apart from the code)
stalled_streamsNoneAsZero(li, c, now_ts) ==
    LET Stalled(x) ==
            now_ts - (IF li[x] = NULL THEN 0 ELSE li[x])
                > stall_threshold_us(c, x)
    IN SelectSeq(Streams, Stalled)

\* the streams tick finds stalled, in the order of last_ingest_ts_by_stream
stalled_streams(li, c, now_ts) ==
    LET Stalled(x) == li[x] # NULL /\ now_ts - li[x] > stall_threshold_us(c, x)
    IN SelectSeq(Streams, Stalled)

\* tick without its _set_hypothesis call (a variant the stall check must
\* tell apart from the code)
tickKeepsHypothesis(W, li, c, now_ts) ==
    LET stalled == stalled_streams(li, c, now_ts)
        sanitization == W.state.sanitization
        W1 == set_data_trust(W, "DEGRADED", now_ts)
        W3 == set_decision(W1, now_ts, "stall:" \o Join(stalled, ","))
    IN IF Len(stalled) = 0 THEN W
       ELSE [W3 EXCEPT !.stats =
                stats_on_event(@, sanitization, "DEGRADED", W3.state.hypothesis,
                               W3.state.decision)]

\* tick that also puts the HypothesisPolicy itself back to WEAKENING (a
\* variant the frame check must tell apart from the code)
tickResetsPolicy(W, li, c, now_ts) ==
    LET stalled == stalled_streams(li, c, now_ts)
        sanitization == W.state.sanitization
        W1 == set_data_trust(W, "DEGRADED", now_ts)
        W2 == set_hypothesis(W1, "WEAKENING", now_ts)
        W3 == set_decision(W2, now_ts, "stall:" \o Join(stalled, ","))
    IN IF Len(stalled) = 0 THEN W
       ELSE [W3 EXCEPT !.stats =
                stats_on_event(@, sanitization, "DEGRADED", "WEAKENING",
                               W3.state.decision),
                       !.hypo.state = "WEAKENING",
                       !.hypo.stable_since_us = NULL]

\* SingleDecisionEngine.tick
tick(W, li, c, now_ts) ==
    LET stalled == stalled_streams(li, c, now_ts)
        sanitization == W.state.sanitization
        W1 == set_data_trust(W, "DEGRADED", now_ts)
        W2 == set_hypothesis(W1, "WEAKENING", now_ts)
        W3 == set_decision(W2, now_ts, "stall:" \o Join(stalled, ","))
    IN IF Len(stalled) = 0 THEN W
       ELSE [W3 EXCEPT !.stats =
                stats_on_event(@, sanitization, "DEGRADED", "WEAKENING",
                               W3.state.decision)]

\* utils.time.now_us: the clock counts milliseconds
time_now_us == clock * 1000

\* main() before it reads the mode: no tick thread, no adapter, stop_event
\* not created, the summary the writer holds empty, the output files open
MainInit ==
    [pc |-> "main", mode |-> "None", stop_event |-> FALSE,
     tick_loop |-> "None", adapter |-> NULL, adapters |-> 0, error |-> FALSE,
     summary |-> <<>>, closed |-> FALSE]

\* the rest of SingleDecisionEngine.__init__, at clock 0: the components the
\* specifications below do not drive
EngineRest ==
    /\ sanitizer = SanitizerInit
    /\ trust = DataTrustInit
    /\ hypo = HypothesisInit
    /\ state = EngineStateInit
    /\ stats = StatsInit(0, EngineStateInit.sanitization,
                         EngineStateInit.data_trust,
                         EngineStateInit.hypothesis, EngineStateInit.decision)
    /\ writer = [WriterInit EXCEPT !.state_transitions =
                    <<[ts |-> 0, data_trust |-> EngineStateInit.data_trust,
                       hypothesis |-> EngineStateInit.hypothesis,
                       decision |-> EngineStateInit.decision,
                       trigger |-> "engine_init"]>>]
    /\ last_ingest_ts_by_stream = [x \in StreamSet |-> NULL]
    /\ clock = 0
    /\ ing = IngInit
    /\ tk = [pc |-> "idle", now_ts |-> NULL, stalled_streams |-> <<>>,
             sanitization |-> "None", decision |-> "None"]
    /\ hist = <<>>
    /\ ticks = 0
    /\ main = MainInit

\* --------------------------------------------------- aligner specification

AlignerCfgs ==
    [allowed_lateness_us : 0..MaxLateness, max_buffer_us : 0..MaxBuffer]

AlignerEvents == [event_ts : (0..MaxTs) \cup {NULL}]

InitAligner ==
    /\ cfg \in AlignerCfgs
    /\ lob = LobInit
    /\ decision = DecisionInit
    /\ seen = SeenInit
    /\ aligner = AlignerInit
    /\ ret = [out |-> <<>>, stats |-> [pushed |-> 0, emitted |-> 0, late |-> 0,
                                       forced_flush |-> FALSE, buffer_len |-> 0]]
    /\ emitted = <<>>
    /\ late_ties = {}
    /\ calls = 0
    /\ EngineRest

\* one call of TimeAligner.align
AlignCall ==
    /\ calls < MaxAlign
    /\ \E ev \in AlignerEvents :
         LET r == align(aligner, cfg, ev) IN
         /\ aligner' = r.aligner
         /\ ret' = [out |-> r.out, stats |-> r.stats]
         /\ emitted' = emitted \o
                (IF ev.event_ts = NULL THEN <<<<NULL, NULL, ev>>>> ELSE r.popped)
         /\ late_ties' = IF r.stats.late = 1
                         THEN late_ties \cup {aligner.tie} ELSE late_ties
    /\ calls' = calls + 1
    /\ UNCHANGED <<main, cfg, lob, decisionVars, engineVars>>

NextAligner == AlignCall

SpecAligner == InitAligner /\ [][NextAligner]_vars

BookCfgs == [depth_limit : 0..MaxDepth]

\* rows with a valid side and numeric price and amount of any sign, the same
\* rows without event_ts for the bid deltas of amount MaxAmount, and rows
\* with exactly one of side, price and amount missing
BookRows ==
    {r \in [stream : {"orderbook"},
            event_ts : {NULL, 1},
            data : [is_snapshot : {0, 1},
                    side : {"bid", "ask", "None"},
                    price : (1..MaxPrice) \cup {NULL},
                    amount : ((0 - 1)..MaxAmount) \cup {NULL}]] :
        \/ /\ ValidRow(r)
           /\ r.event_ts = NULL
                => /\ r.data.is_snapshot = 0
                   /\ r.data.side = "bid"
                   /\ r.data.amount = MaxAmount
        \/ /\ r.event_ts = 1
           /\ r.data \in {[is_snapshot |-> r.data.is_snapshot, side |-> "None",
                            price |-> 1, amount |-> 1],
                           [is_snapshot |-> r.data.is_snapshot, side |-> "bid",
                            price |-> NULL, amount |-> 1],
                           [is_snapshot |-> r.data.is_snapshot, side |-> "ask",
                            price |-> 1, amount |-> NULL]}}

\* ret of the book specification: the row applied and the book as the row's
\* write left it, before _trim
RetBookInit == [applied |-> FALSE, pre |-> OrderBookInit]

InitBook ==
    /\ cfg \in BookCfgs
    /\ lob = LobInit
    /\ ret = RetBookInit
    /\ aligner = AlignerInit
    /\ emitted = <<>>
    /\ late_ties = {}
    /\ decision = DecisionInit
    /\ seen = SeenInit
    /\ calls = 0
    /\ EngineRest

\* one call of OrderBookReplayer.on_event
OnEventCall ==
    /\ \E ev \in BookRows, now_us \in {1} :
         /\ lob' = on_event(lob, cfg.depth_limit, ev, now_us)
         /\ ret' = [applied |-> ValidRow(ev),
                    pre |-> IF ~ValidRow(ev) THEN lob.orderbook
                            ELSE IF ev.data.is_snapshot = 1
                            THEN snapshot_write(on_event_base(lob, ev),
                                     ev.data.side, ev.data.price, ev.data.amount)
                            ELSE delta_write(lob.orderbook,
                                     ev.data.side, ev.data.price, ev.data.amount)]
    /\ UNCHANGED <<main, cfg, alignerVars, decisionVars, calls, engineVars>>

NextBook == OnEventCall

SpecBook == InitBook /\ [][NextBook]_vars

\* C6 (as stated): every amount stored in bids and in asks is > 0.
C6_StoredAmountsPositive ==
    /\ \A p \in DOMAIN lob.orderbook.bids : lob.orderbook.bids[p] > 0
    /\ \A p \in DOMAIN lob.orderbook.asks : lob.orderbook.asks[p] > 0

\* the levels of `pre` that survive a trim to n levels keeping the best ones
KeptBest(post, pre, n, better(_, _)) ==
    /\ DOMAIN post \subseteq DOMAIN pre
    /\ \A p \in DOMAIN post : post[p] = pre[p]
    /\ Cardinality(DOMAIN post) =
          (IF Cardinality(DOMAIN pre) > n THEN n ELSE Cardinality(DOMAIN pre))
    /\ \A k \in DOMAIN post : \A d \in (DOMAIN pre) \ (DOMAIN post) : better(k, d)

Higher(a, b) == a > b
Lower(a, b) == a < b

\* C7: for depth_limit >= 1, after every apply_snapshot and apply_delta each
\* side holds at most depth_limit levels, and the levels kept are the
\* depth_limit highest bids and the depth_limit lowest asks among those
\* present before the trim.
C7_DepthTrim ==
    cfg.depth_limit >= 1 =>
        /\ Cardinality(DOMAIN lob.orderbook.bids) <= cfg.depth_limit
        /\ Cardinality(DOMAIN lob.orderbook.asks) <= cfg.depth_limit
        /\ KeptBest(lob.orderbook.bids, ret.pre.bids, cfg.depth_limit, Higher)
        /\ KeptBest(lob.orderbook.asks, ret.pre.asks, cfg.depth_limit, Lower)

\* C7 witness: a write left more bids than depth_limit and the trim dropped
\* the lowest one; the same for asks with the highest one.
C7_Witness ==
    /\ cfg.depth_limit >= 1
    /\ ret.applied
    /\ \/ Cardinality(DOMAIN ret.pre.bids) > cfg.depth_limit
       \/ Cardinality(DOMAIN ret.pre.asks) > cfg.depth_limit

\* --------------------------------------------- decision machine specification

SpanReasons == {"stall:trades", "engine_init"}

RetDecisionInit == [data_trust |-> "None", hypothesis |-> "None", value |-> "None"]

InitDecision ==
    /\ cfg = [depth_limit |-> 0]
    /\ decision = DecisionInit
    /\ seen = SeenInit
    /\ ret = RetDecisionInit
    /\ aligner = AlignerInit
    /\ emitted = <<>>
    /\ late_ties = {}
    /\ lob = LobInit
    /\ calls = 0
    /\ EngineRest

\* one call of DecisionMachine.compute
ComputeCall ==
    /\ calls < MaxCompute
    /\ \E data_trust \in DataTrustStates, hypothesis \in HypothesisStates :
         LET d == compute(decision, data_trust, hypothesis) IN
         /\ ret' = [data_trust |-> data_trust, hypothesis |-> hypothesis,
                    value |-> d]
         /\ seen' = [seen EXCEPT ![<<data_trust, hypothesis>>] =
                        @ \cup {[self |-> decision, value |-> d]}]
    /\ calls' = calls + 1
    /\ UNCHANGED <<main, cfg, decision, alignerVars, lob, engineVars>>

\* the engine's writes to the machine between calls (_set_decision)
SpanWrite ==
    /\ \E now_ts \in 0..1, trigger \in SpanReasons :
         decision' = [last_ts |-> now_ts, last_reason |-> trigger]
    /\ UNCHANGED <<main, cfg, seen, ret, alignerVars, lob, calls, engineVars>>

NextDecision == ComputeCall \/ SpanWrite

SpecDecision == InitDecision /\ [][NextDecision]_vars

\* C2 (as stated): compute returns HALTED whenever data_trust is UNTRUSTED
\* or hypothesis is INVALID, whatever the other input.
C2_UntrustedOrInvalidHalts ==
    (ret.data_trust = "UNTRUSTED" \/ ret.hypothesis = "INVALID")
        => ret.value = "HALTED"

\* C3: compute returns ALLOWED exactly for (TRUSTED, VALID); with DEGRADED or
\* WEAKENING the result is RESTRICTED or HALTED.
C3_AllowedIffTrustedValid ==
    ret.value # "None" =>
        /\ (ret.value = "ALLOWED")
              <=> (ret.data_trust = "TRUSTED" /\ ret.hypothesis = "VALID")
        /\ (ret.data_trust = "DEGRADED" \/ ret.hypothesis = "WEAKENING")
              => ret.value \in {"RESTRICTED", "HALTED"}

\* C3 witness: compute has returned ALLOWED for (TRUSTED, VALID) and something
\* else for a DEGRADED input.
C3_Witness ==
    /\ \E c \in seen[<<"TRUSTED", "VALID">>] : c.value = "ALLOWED"
    /\ \E c \in seen[<<"DEGRADED", "VALID">>] : c.value = "RESTRICTED"
    /\ ret.hypothesis = "WEAKENING" /\ ret.value = "RESTRICTED"

\* C4: all calls of compute with the same (data_trust, hypothesis) returned
\* the same decision, whatever last_ts and last_reason were at each call, and
\* a call leaves last_ts and last_reason as they were.
C4_PureFunction ==
    /\ [](\A p \in TrustHypoPairs : \A a, b \in seen[p] : a.value = b.value)
    /\ [][seen' # seen => decision' = decision]_vars

\* C4 witness: the same pair was computed under two different machine states
\* (different last_ts and last_reason), after calls with other pairs.
C4_Witness ==
    \E p, q \in TrustHypoPairs :
        /\ p # q /\ seen[q] # {}
        /\ \E a, b \in seen[p] :
              /\ a.self.last_ts # b.self.last_ts
              /\ a.self.last_reason # b.self.last_reason

\* ------------------------------------------------------ engine specification

\* one configuration: exchange, symbol and every threshold the components read
EngineCfg ==
    [exchange |-> "ex", symbol |-> "sym", depth_limit |-> 2,
     allowed_lateness_us |-> 0, max_buffer_us |-> 1,
     trades_stall_threshold_us |-> 0, orderbook_stall_threshold_us |-> 1000,
     liquidations_stall_threshold_us |-> 0, ticker_stall_threshold_us |-> 1000,
     window_events |-> 2, quarantine_untrusted_rate |-> 100,
     late_degraded_rate |-> 50, late_untrusted_rate |-> 100,
     forced_flush_degraded_rate |-> 50, forced_flush_untrusted_rate |-> 100,
     buffer_len_degraded |-> 2, buffer_len_untrusted |-> 3,
     spread_explode_bps |-> 200, fat_finger_untrusted_bps |-> 1000,
     fat_finger_degraded_bps |-> 100, trade_jump_degraded_bps |-> 100,
     weak_price_diverge_bps |-> 60, invalid_price_diverge_bps |-> 500,
     stable_min_duration_us |-> 1000]

Event(stream, exchange, event_ts, data) ==
    [stream |-> stream, exchange |-> exchange, symbol |-> "sym",
     event_ts |-> event_ts, data |-> data]

BookRow(is_snapshot, side, price, amount) ==
    [is_snapshot |-> is_snapshot, side |-> side, price |-> price,
     amount |-> amount]

Ticker(mark_price) ==
    [funding_timestamp |-> 1, funding_rate |-> 1, predicted_funding_rate |-> 1,
     open_interest |-> 1, last_price |-> 100, index_price |-> 100,
     mark_price |-> mark_price]

\* the events the adapter delivers: a snapshot row and a delta row that build
\* a book of 100 / 101, a snapshot row of another exchange, tickers whose
\* mark price agrees with, strays from and breaks with the other witnesses,
\* a trade, and a trade whose exchange is None
EngineEvents ==
    {Event("orderbook", "ex", 1, BookRow(1, "bid", 100, 1)),
     Event("orderbook", "ex", 1, BookRow(0, "ask", 101, 1)),
     Event("orderbook", "ex", 1, BookRow(1, "ask", 99, 1)),
     Event("orderbook", "other", 2, BookRow(1, "ask", 102, 1)),
     Event("ticker", "ex", 2, Ticker(100)),
     Event("ticker", "ex", 2, Ticker(101)),
     Event("ticker", "ex", 2, Ticker(110)),
     Event("trades", "ex", 1, [side |-> "buy", price |-> 100, amount |-> 1]),
     Event("trades", "None", 2, [side |-> "buy", price |-> 100, amount |-> 1])}

RetEngineInit == [ev |-> "None", sanitization |-> "None", lob |-> LobInit]

InitEngine ==
    /\ cfg = EngineCfg
    /\ aligner = AlignerInit
    /\ lob = LobInit
    /\ decision = DecisionInit
    /\ ret = RetEngineInit
    /\ emitted = <<>>
    /\ late_ties = {}
    /\ seen = SeenInit
    /\ calls = 0
    /\ EngineRest

TheWorld == World(sanitizer, lob, trust, hypo, state, decision, stats, writer)

Install(W) ==
    /\ sanitizer' = W.sanitizer
    /\ lob' = W.lob
    /\ trust' = W.trust
    /\ hypo' = W.hypo
    /\ state' = W.state
    /\ decision' = W.decision
    /\ stats' = W.stats
    /\ writer' = W.writer

\* history: the consensus evaluation verify makes of fixed_ev, if it has
\* enough sources, with the time of the ingest call
Evaluated(h, c, tp, fixed_ev, now_ts) ==
    LET cons == consensus(collect_prices(verify_update(h, fixed_ev), tp,
                                         fixed_ev))
    IN IF cons.ok
       THEN <<[t |-> now_ts, sources |-> cons.sources,
               below_weak |-> cons.worst.num
                                < c.weak_price_diverge_bps * cons.worst.den]>>
       ELSE <<>>

\* time passes
Tock ==
    /\ clock < MaxNow
    /\ clock' = clock + 1
    /\ UNCHANGED <<main, cfg, aligner, lob, decision, ret, emitted, late_ties, seen,
                   calls, sanitizer, trust, hypo, state, stats, writer,
                   last_ingest_ts_by_stream, ing, tk, hist, ticks>>

\* run_loop calls ingest(ev): lines 65-69, for at most n calls
IngestBegin(n) ==
    /\ ing.pc = "idle"
    /\ calls < n
    /\ \E ev \in EngineEvents :
         LET b == ingest_begin(aligner, trust, last_ingest_ts_by_stream, cfg,
                               ev, time_now_us) IN
         /\ aligner' = b.aligner
         /\ trust' = b.trust
         /\ last_ingest_ts_by_stream' = b.last_ingest_ts_by_stream
         /\ ing' = IF Len(b.aligned_evs) = 0 THEN IngInit
                   ELSE [IngInit EXCEPT !.pc = "sanitize",
                                        !.now_ts = time_now_us,
                                        !.aligned_evs = b.aligned_evs]
    /\ calls' = calls + 1
    /\ UNCHANGED <<main, cfg, lob, decision, ret, emitted, late_ties, seen,
                   sanitizer, hypo, state, stats, writer, clock, tk, hist,
                   ticks>>

IngestCall == IngestBegin(MaxIngest)

\* one pass of ingest's loop body (lines 72-95) for the next aligned event,
\* run without interruption; when sanitize raises, ingest ends there
ProcessAligned ==
    /\ ing.pc = "sanitize"
    /\ \E x1 \in {ingest_sanitize(TheWorld, cfg, ing)} :
         IF x1.raised
         THEN /\ ing' = IngInit
              /\ UNCHANGED <<sanitizer, lob, trust, hypo, state, decision,
                             stats, writer, ret, hist>>
         ELSE
           \E x2 \in {ingest_replay(x1.world, cfg, x1.locals)} :
           \E x3 \in {ingest_data_trust(x2.world, cfg, x2.locals)} :
           \E x4 \in {ingest_verify(x3.world, cfg, x3.locals)} :
           \E x5 \in {ingest_set_decision(x4.world, cfg, x4.locals)} :
           \E x6 \in {ingest_stats(x5.world, cfg, x5.locals)} :
              /\ Install(x6.world)
              /\ ing' = x6.locals
              /\ ret' = [ev |-> Head(ing.aligned_evs),
                         sanitization |-> x1.locals.sanitization, lob |-> lob]
              /\ hist' = hist \o Evaluated(x3.world.hypo, cfg,
                                           top(x3.world.lob.orderbook),
                                           x3.locals.fixed_ev, ing.now_ts)
    /\ UNCHANGED <<main, cfg, aligner, emitted, late_ties, seen, calls,
                   last_ingest_ts_by_stream, clock, tk, ticks>>

\* tick_loop calls tick(now_us()) between two ingest calls
TickCall ==
    /\ ing.pc = "idle"
    /\ Len(stalled_streams(last_ingest_ts_by_stream, cfg, time_now_us)) > 0
          => ticks < MaxTick
    /\ Install(tick(TheWorld, last_ingest_ts_by_stream, cfg, time_now_us))
    /\ ticks' = ticks
                + Inc(Len(stalled_streams(last_ingest_ts_by_stream, cfg,
                                          time_now_us)) > 0)
    /\ UNCHANGED <<main, cfg, aligner, ret, emitted, late_ties, seen, calls,
                   last_ingest_ts_by_stream, clock, ing, tk, hist>>

NextEngine == Tock \/ IngestCall \/ ProcessAligned \/ TickCall

SpecEngine == InitEngine /\ [][NextEngine]_vars

\* ------------------------------------------- the two threads, interleaved

\* what a step of either thread leaves alone besides the world and its locals
threadFrame == <<main, cfg, aligner, emitted, late_ties, seen, calls,
                 last_ingest_ts_by_stream, clock>>

ThreadIngestCall == IngestBegin(MaxThreadIngest)

\* a step of the ingest thread at pc from, to pc to, by one statement group
IngestStep(from, to, x) ==
    /\ ing.pc = from
    /\ Install(x.world)
    /\ ing' = IF x.locals.pc = from THEN [x.locals EXCEPT !.pc = to]
              ELSE x.locals

IngestSanitize ==
    /\ ing.pc = "sanitize"
    /\ LET x == ingest_sanitize(TheWorld, cfg, ing) IN
       IF x.raised
       THEN /\ ing' = IngInit
            /\ UNCHANGED <<sanitizer, lob, trust, hypo, state, decision, stats,
                           writer>>
       ELSE IngestStep("sanitize", "replay", x)
    /\ UNCHANGED <<threadFrame, ret, hist, tk, ticks>>

IngestReplay ==
    /\ IngestStep("replay", "data_trust", ingest_replay(TheWorld, cfg, ing))
    /\ ret' = [ev |-> Head(ing.aligned_evs), sanitization |-> ing.sanitization,
               lob |-> lob]
    /\ UNCHANGED <<threadFrame, hist, tk, ticks>>

IngestDataTrust ==
    /\ IngestStep("data_trust", "verify", ingest_data_trust(TheWorld, cfg, ing))
    /\ UNCHANGED <<threadFrame, ret, hist, tk, ticks>>

IngestVerify ==
    /\ IngestStep("verify", "set_decision", ingest_verify(TheWorld, cfg, ing))
    /\ hist' = hist \o Evaluated(hypo, cfg, top(lob.orderbook), ing.fixed_ev,
                                 ing.now_ts)
    /\ UNCHANGED <<threadFrame, ret, tk, ticks>>

IngestSetDecision ==
    /\ IngestStep("set_decision", "stats",
                  ingest_set_decision(TheWorld, cfg, ing))
    /\ UNCHANGED <<threadFrame, ret, hist, tk, ticks>>

\* the last statement of the loop body: back to line 74 for the next aligned
\* event, or the return of ingest
IngestStats ==
    /\ ing.pc = "stats"
    /\ LET x == ingest_stats(TheWorld, cfg, ing) IN
       /\ Install(x.world)
       /\ ing' = x.locals
    /\ UNCHANGED <<threadFrame, ret, hist, tk, ticks>>

\* tick, lines 100-120: the scan of last_ingest_ts_by_stream
TickScan ==
    /\ tk.pc = "idle"
    /\ ticks < MaxTick
    /\ LET stalled == stalled_streams(last_ingest_ts_by_stream, cfg,
                                      time_now_us) IN
       tk' = IF Len(stalled) = 0 THEN tk
             ELSE [pc |-> "set_data_trust", now_ts |-> time_now_us,
                   stalled_streams |-> stalled,
                   sanitization |-> state.sanitization, decision |-> "None"]
    /\ UNCHANGED <<threadFrame, sanitizer, lob, trust, hypo, state, decision,
                   stats, writer, ret, hist, ing, ticks>>

\* tick, lines 122-123
TickSetDataTrust ==
    /\ tk.pc = "set_data_trust"
    /\ Install(set_data_trust(TheWorld, "DEGRADED", tk.now_ts))
    /\ tk' = [tk EXCEPT !.pc = "set_hypothesis"]
    /\ UNCHANGED <<threadFrame, ret, hist, ing, ticks>>

\* tick, lines 125-126
TickSetHypothesis ==
    /\ tk.pc = "set_hypothesis"
    /\ Install(set_hypothesis(TheWorld, "WEAKENING", tk.now_ts))
    /\ tk' = [tk EXCEPT !.pc = "set_decision"]
    /\ UNCHANGED <<threadFrame, ret, hist, ing, ticks>>

\* tick, lines 128-129
TickSetDecision ==
    /\ tk.pc = "set_decision"
    /\ Install(set_decision(TheWorld, tk.now_ts,
                            "stall:" \o Join(tk.stalled_streams, ",")))
    /\ tk' = [tk EXCEPT !.pc = "stats",
                        !.decision = compute(decision, state.data_trust,
                                             state.hypothesis)]
    /\ UNCHANGED <<threadFrame, ret, hist, ing, ticks>>

\* tick, line 130, and the return of tick
TickStats ==
    /\ tk.pc = "stats"
    /\ Install([TheWorld EXCEPT !.stats =
                   stats_on_event(@, tk.sanitization, "DEGRADED", "WEAKENING",
                                  tk.decision)])
    /\ tk' = [pc |-> "idle", now_ts |-> NULL, stalled_streams |-> <<>>,
              sanitization |-> "None", decision |-> "None"]
    /\ ticks' = ticks + 1
    /\ UNCHANGED <<threadFrame, ret, hist, ing>>

NextThreads ==
    \/ Tock
    \/ ThreadIngestCall
    \/ IngestSanitize
    \/ IngestReplay
    \/ IngestDataTrust
    \/ IngestVerify
    \/ IngestSetDecision
    \/ IngestStats
    \/ TickScan
    \/ TickSetDataTrust
    \/ TickSetHypothesis
    \/ TickSetDecision
    \/ TickStats

SpecThreads == InitEngine /\ [][NextThreads]_vars

\* C5 (as stated): ingest and tick never execute concurrently over engine
\* state: while one call is between its first and its last access to the
\* engine's state, the other call is not.
C5_IngestTickExclusive == ~(ing.pc # "idle" /\ tk.pc # "idle")

\* C8: when ingest processes an ORDERBOOK event for which the sanitizer
\* returned QUARANTINE, the book (bids, asks, last_update_us, last_event_ts)
\* and the replayer's snapshot_active are what they were before the event.
C8_QuarantinedRowLeavesBook ==
    (ret.sanitization = "QUARANTINE" /\ ret.ev.stream = "orderbook")
        => lob = ret.lob

\* C8 witness: a quarantined ORDERBOOK row was processed over a book with
\* levels on both sides, and the replayer would have changed that book.
C8_Witness ==
    /\ ret.sanitization = "QUARANTINE"
    /\ ret.ev.stream = "orderbook"
    /\ ValidRow(ret.ev)
    /\ DOMAIN lob.orderbook.bids # {}
    /\ DOMAIN lob.orderbook.asks # {}
    /\ on_event(lob, cfg.depth_limit, ret.ev, time_now_us) # lob

\* the evaluations h hold a stable window for a change to VALID at time t: one
\* below the weak threshold at least stable_min_duration_us before t, and
\* none at or above the threshold after it
StableWindow(h, t) ==
    \E i \in 1..Len(h) :
        /\ h[i].below_weak
        /\ h[i].t <= t - cfg.stable_min_duration_us
        /\ \A j \in (i + 1)..Len(h) : h[j].below_weak

\* C9: the policy's state and the engine's hypothesis field change from
\* WEAKENING or INVALID to VALID at time t only if a consensus evaluation
\* with worst_bps below the weak threshold occurred at some s <= t -
\* stable_min_duration_us and no evaluation from s to t had worst_bps at or
\* above the threshold.
C9_ValidOnlyAfterStableWindow ==
    [][((hypo.state \in {"WEAKENING", "INVALID"} /\ hypo'.state = "VALID")
        \/ (state.hypothesis \in {"WEAKENING", "INVALID"}
              /\ state'.hypothesis = "VALID"))
          => StableWindow(hist', ing.now_ts)]_vars

\* C9 witness: the policy and the engine are VALID after an evaluation that
\* was below the threshold but too early, and one a full window later.
C9_Witness ==
    /\ hypo.state = "VALID"
    /\ state.hypothesis = "VALID"
    /\ Len(hist) >= 2
    /\ hist[Len(hist)].t - hist[1].t >= cfg.stable_min_duration_us
    /\ hist[1].t < hist[Len(hist)].t

\* C10: after any sequence of ingest and tick calls, total_events equals
\* allowed_events + restricted_events + halted_events.
C10_TotalIsSumOfDecisions ==
    stats.total_events
        = stats.allowed_events + stats.restricted_events + stats.halted_events

\* C10 witness: ingest and a stalled tick have both counted, and two of the
\* three decision counters are positive.
C10_Witness ==
    /\ ticks > 0
    /\ stats.total_events >= 3
    /\ stats.halted_events > 0
    /\ stats.restricted_events > 0

\* ------------------------------------------------- statistics specification

SanitizationStates == {"ACCEPT", "REPAIR", "QUARANTINE"}

RetStatsInit == [finalized |-> FALSE, start_us |-> 0, now_us |-> NULL,
                 summary |-> "None"]

\* EngineStats() and init_dwell at time 0, as the engine's constructor does
InitStats ==
    /\ cfg = [depth_limit |-> 0]
    /\ aligner = AlignerInit
    /\ lob = LobInit
    /\ decision = DecisionInit
    /\ ret = RetStatsInit
    /\ emitted = <<>>
    /\ late_ties = {}
    /\ seen = SeenInit
    /\ calls = 0
    /\ EngineRest

statsFrame == <<main, cfg, aligner, lob, decision, emitted, late_ties, seen,
                sanitizer, trust, hypo, state, writer,
                last_ingest_ts_by_stream, clock, ing, tk, hist, ticks>>

\* time passes before finalize
StatsTock ==
    /\ ~ret.finalized
    /\ clock < MaxNow
    /\ clock' = clock + 1
    /\ UNCHANGED <<main, cfg, aligner, lob, decision, ret, emitted, late_ties, seen,
                   calls, sanitizer, trust, hypo, state, stats, writer,
                   last_ingest_ts_by_stream, ing, tk, hist, ticks>>

\* EngineStats.switch_san
SwitchSan ==
    /\ ~ret.finalized /\ calls < MaxSwitch
    /\ \E san \in SanitizationStates :
         stats' = [stats EXCEPT !.san_dwell = switch(@, san, time_now_us)]
    /\ calls' = calls + 1
    /\ UNCHANGED <<statsFrame, ret>>

\* EngineStats.switch_trust
SwitchTrust ==
    /\ ~ret.finalized /\ calls < MaxSwitch
    /\ \E dt \in DataTrustStates :
         stats' = [stats EXCEPT !.trust_dwell = switch(@, dt, time_now_us)]
    /\ calls' = calls + 1
    /\ UNCHANGED <<statsFrame, ret>>

\* EngineStats.switch_hypo
SwitchHypo ==
    /\ ~ret.finalized /\ calls < MaxSwitch
    /\ \E hy \in HypothesisStates :
         stats' = [stats EXCEPT !.hypo_dwell = switch(@, hy, time_now_us)]
    /\ calls' = calls + 1
    /\ UNCHANGED <<statsFrame, ret>>

\* EngineStats.switch_decision
SwitchDecision ==
    /\ ~ret.finalized /\ calls < MaxSwitch
    /\ \E dec \in DecisionStates :
         stats' = [stats EXCEPT !.decision_dwell = switch(@, dec, time_now_us)]
    /\ calls' = calls + 1
    /\ UNCHANGED <<statsFrame, ret>>

\* EngineStats.finalize(now_us)
FinalizeCall ==
    /\ ~ret.finalized
    /\ LET f == finalize(stats, time_now_us) IN
       /\ stats' = f.stats
       /\ ret' = [finalized |-> TRUE, start_us |-> ret.start_us,
                  now_us |-> time_now_us, summary |-> f.summary]
    /\ UNCHANGED <<statsFrame, calls>>

NextStats ==
    \/ StatsTock
    \/ SwitchSan
    \/ SwitchTrust
    \/ SwitchHypo
    \/ SwitchDecision
    \/ FinalizeCall

SpecStats == InitStats /\ [][NextStats]_vars

\* the sum of the values of a dict
RECURSIVE DictSum(_)
DictSum(d) ==
    IF DOMAIN d = {} THEN 0
    ELSE LET k == CHOOSE x \in DOMAIN d : TRUE
         IN d[k] + DictSum([x \in (DOMAIN d) \ {k} |-> d[x]])

DwellAxes == {"sanitization", "data_trust", "hypothesis", "decision"}

\* C11 (as stated): after finalize(now_us), on each of the four axes the
\* dwell times of the summary sum to now_us minus the time given to
\* init_dwell.
C11_DwellSumsEqualElapsed ==
    ret.finalized =>
        \A axis \in DwellAxes :
            DictSum(ret.summary.dwell[axis].total_ts) = ret.now_us - ret.start_us

\* -------------------------------------------------- sanitizer specification

SanCfgs == {[exchange |-> "ex", symbol |-> sy] : sy \in {"sym", ""}}

\* ticker payloads: every tracked field null or 1, open_interest also up to
\* MaxField, at most MaxNulls null fields; and payloads without the
\* predicted_funding_rate key
TickerPayloads ==
    LET Full == {p \in [SeqRange(TickerCached) -> (1..MaxField) \cup {NULL}] :
                   /\ \A k \in DOMAIN p : p[k] > 1 => k = "open_interest"
                   /\ Cardinality({k \in DOMAIN p : p[k] = NULL}) <= MaxNulls}
        Short == {[k \in SeqRange(TickerRequired) |-> p[k]] :
                    p \in {q \in Full : q["predicted_funding_rate"] = NULL
                                        /\ q["open_interest"] # MaxField}}
    IN Full \cup Short

OtherPayloads ==
    {[stream |-> "trades", data |-> [side |-> "buy", price |-> 1, amount |-> 1]],
     [stream |-> "trades", data |-> [side |-> "buy", price |-> NULL, amount |-> 1]],
     [stream |-> "liquidations", data |-> [side |-> "sell", price |-> 1, amount |-> 1]],
     [stream |-> "liquidations", data |-> [side |-> "None", price |-> 1, amount |-> 1]],
     [stream |-> "orderbook",
      data |-> [is_snapshot |-> 0, side |-> "bid", price |-> 1, amount |-> 1]],
     [stream |-> "orderbook",
      data |-> [is_snapshot |-> NULL, side |-> "bid", price |-> 1, amount |-> 1]],
     [stream |-> "orderbook", data |-> [side |-> "ask", price |-> 1, amount |-> NULL]],
     [stream |-> "funding", data |-> [price |-> 1]]}

SanEvent(stream, exchange, symbol, data) ==
    [stream |-> stream, exchange |-> exchange, symbol |-> symbol,
     event_ts |-> 1, ingest_ts |-> 2, event_id |-> "None", data |-> data]

\* events of the instrument, and a few with another or no exchange or symbol
SanEvents ==
    {SanEvent("ticker", "ex", "sym", p) : p \in TickerPayloads}
    \cup {SanEvent(o.stream, "ex", "sym", o.data) : o \in OtherPayloads}
    \cup {SanEvent(st, x[1], x[2], d) :
            st \in {"ticker"},
            x \in {<<"None", "sym">>, <<"other", "sym">>, <<"ex", "None">>,
                   <<"ex", "other">>},
            d \in {p \in TickerPayloads :
                     /\ DOMAIN p = SeqRange(TickerCached)
                     /\ \A k \in DOMAIN p : k # "open_interest" => p[k] = 1}}
    \cup {SanEvent("trades", x[1], x[2], [side |-> "buy", price |-> 1, amount |-> 1]) :
            x \in {<<"None", "sym">>, <<"other", "sym">>, <<"ex", "None">>,
                   <<"ex", "other">>}}

NoResult == [status |-> "None", out |-> "None", reason |-> "None"]

RetSanInit ==
    [called |-> FALSE, again |-> FALSE, ev |-> "None", raised |-> FALSE,
     status |-> "None", out |-> "None", reason |-> "None",
     before |-> SanitizerInit, seen_before |-> SanitizerInit,
     seen |-> SanitizerInit, prev |-> NoResult]

InitSanitizer ==
    /\ cfg \in SanCfgs
    /\ aligner = AlignerInit
    /\ lob = LobInit
    /\ decision = DecisionInit
    /\ ret = RetSanInit
    /\ emitted = <<>>
    /\ late_ties = {}
    /\ seen = SeenInit
    /\ calls = 0
    /\ EngineRest

sanFrame == <<main, cfg, aligner, lob, decision, emitted, late_ties, seen,
              trust, hypo, state, stats, writer,
              last_ingest_ts_by_stream, clock, ing, tk, hist, ticks>>

\* the last non-null value of each tracked field over the ticker events of
\* the instrument (exchange as configured, symbol as configured or None)
SeenAfter(sn, c, ev) ==
    IF ev.stream = "ticker" /\ ev.exchange = c.exchange
       /\ (ev.symbol = c.symbol \/ ev.symbol = "None")
    THEN [k \in DOMAIN sn |-> IF Get(ev.data, k) # NULL THEN ev.data[k] ELSE sn[k]]
    ELSE sn

\* one call sanitizer.sanitize(ev), its result kept in ret
Sanitized(ev, again) ==
    /\ calls < MaxSanitize
    /\ \E r \in {sanitize(sanitizer, cfg, ev)} :
         /\ sanitizer' = r.sanitizer
         /\ ret' = [called |-> TRUE, again |-> again, ev |-> ev,
                    raised |-> r.raised,
                    status |-> IF r.raised THEN "None" ELSE r.status,
                    out |-> IF r.raised THEN "None" ELSE r.ev,
                    reason |-> IF r.raised THEN "None" ELSE r.reason,
                    before |-> sanitizer, seen_before |-> ret.seen,
                    seen |-> SeenAfter(ret.seen, cfg, ev),
                    prev |-> IF again
                             THEN [status |-> ret.status, out |-> ret.out,
                                   reason |-> ret.reason]
                             ELSE NoResult]
    /\ calls' = calls + 1
    /\ UNCHANGED sanFrame

\* sanitize of an event from the adapter
SanitizeCall == \E ev \in SanEvents : Sanitized(ev, FALSE)

\* sanitize of the event the last call returned
SanitizeAgain ==
    /\ ret.called /\ ~ret.raised
    /\ Sanitized(ret.out, TRUE)

NextSanitizer ==
    \/ SanitizeCall
    \/ SanitizeAgain

SpecSanitizer == InitSanitizer /\ [][NextSanitizer]_vars

\* C12: when sanitize returned ACCEPT for an event, sanitizing the returned
\* event again returns ACCEPT, the same event and the same, empty, reason.
C12_SanitizeIdempotentOnAccept ==
    (ret.again /\ ret.prev.status = "ACCEPT") =>
        /\ ~ret.raised
        /\ ret.status = "ACCEPT"
        /\ ret.out = ret.prev.out
        /\ ret.reason = ret.prev.reason
        /\ ret.reason = ""

\* C12 witness: a ticker accepted with some fields already in the cache was
\* sanitized a second time
C12_Witness ==
    /\ ret.again /\ ret.prev.status = "ACCEPT"
    /\ ret.ev.stream = "ticker"
    /\ calls = 3
    /\ ret.before["open_interest"] = MaxField

\* the last call was sanitize of a ticker event with the configured exchange
\* and symbol
MatchingTicker ==
    /\ ret.called
    /\ ret.ev.stream = "ticker"
    /\ ret.ev.exchange = cfg.exchange
    /\ ret.ev.symbol = cfg.symbol

RequiredSet == SeqRange(TickerRequired)

\* the fields of the last call's payload that are null (or absent)
NullFields == {k \in SeqRange(TickerCached) : Get(ret.ev.data, k) = NULL}

\* the last call's payload with each null field replaced by the last value
\* seen for it, where one was seen
CarriedForward ==
    LET fill == {k \in NullFields : ret.seen_before[k] # NULL}
    IN [k \in (DOMAIN ret.ev.data) \cup fill |->
          IF k \in fill THEN ret.seen_before[k] ELSE ret.ev.data[k]]

\* C17: a ticker of the instrument with every required field non-null and no
\* null field that has a seen value is ACCEPT and returned unchanged; one
\* with a null required field, each null required field having been seen
\* non-null in an earlier ticker, is REPAIR with reason
\* repair_ticker_merge_cache and carries the payload with each null field
\* replaced by the last non-null value seen.
C17_TickerCarryForward ==
    MatchingTicker =>
        /\ (NullFields \cap RequiredSet = {}
            /\ \A k \in NullFields : ret.seen_before[k] = NULL)
           => /\ ret.status = "ACCEPT"
              /\ ret.out = ret.ev
              /\ ret.reason = ""
        /\ (NullFields \cap RequiredSet # {}
            /\ \A k \in NullFields \cap RequiredSet : ret.seen_before[k] # NULL)
           => /\ ret.status = "REPAIR"
              /\ ret.reason = "repair_ticker_merge_cache"
              /\ ret.out = [ret.ev EXCEPT !.data = CarriedForward]

\* C17 witness: the second ticker lacks open_interest and is returned with
\* the value of the first
C17_Witness ==
    /\ MatchingTicker /\ ~ret.again /\ calls = 2
    /\ NullFields = {"open_interest"}
    /\ ret.status = "REPAIR"
    /\ ret.out.data["open_interest"] = MaxField

\* the required fields that are null in the last call's payload and have no
\* cached value, in the order of the required list
Uncached ==
    LET Lacks(k) == Get(ret.ev.data, k) = NULL /\ ret.before[k] = NULL
    IN SelectSeq(TickerRequired, Lacks)

\* C18: a ticker of the instrument is QUARANTINE exactly when a required
\* field is null in the payload and has no cached value; the reason is
\* ticker_missing_fields: followed by those fields in the order of the
\* required list, and the event is returned as it came.
C18_TickerQuarantineIffUncached ==
    MatchingTicker =>
        /\ ret.status = "QUARANTINE" <=> Len(Uncached) > 0
        /\ ret.status = "QUARANTINE" =>
              /\ ret.reason = "ticker_missing_fields:" \o Join(Uncached, ",")
              /\ ret.out = ret.ev

\* C18 witness: a third ticker without index_price, nothing being cached
\* for it, while predicted_funding_rate is null and uncached too
C18_Witness ==
    /\ MatchingTicker /\ calls = 3
    /\ ret.status = "QUARANTINE"
    /\ ret.reason = "ticker_missing_fields:index_price"
    /\ Get(ret.ev.data, "predicted_funding_rate") = NULL
    /\ ret.before["predicted_funding_rate"] = NULL
    /\ ret.before["open_interest"] # NULL

\* C19 (as stated): sanitize of an event whose exchange is None returns
\* REPAIR with a reason containing repair_exchange_default and a new event
\* with the configured exchange, unless a later test quarantines the event.
C19_NullExchangeRepaired ==
    (ret.called /\ ret.ev.exchange = "None") =>
        /\ ~ret.raised
        /\ \/ ret.status = "QUARANTINE"
           \/ /\ ret.status = "REPAIR"
              /\ ret.out.exchange = cfg.exchange
              /\ \E post \in {"", "|repair_symbol_default",
                              "|repair_ticker_merge_cache",
                              "|repair_symbol_default|repair_ticker_merge_cache"} :
                    ret.reason = "repair_exchange_default" \o post

\* the stream's last ingest is more than its threshold before the clock
StalledNow(x) ==
    /\ last_ingest_ts_by_stream[x] # NULL
    /\ time_now_us - last_ingest_ts_by_stream[x] > stall_threshold_us(cfg, x)

\* the names of the stalled streams, in the order trades, orderbook,
\* liquidations, ticker
StalledNames ==
    (IF StalledNow("trades") THEN <<"trades">> ELSE <<>>)
    \o (IF StalledNow("orderbook") THEN <<"orderbook">> ELSE <<>>)
    \o (IF StalledNow("liquidations") THEN <<"liquidations">> ELSE <<>>)
    \o (IF StalledNow("ticker") THEN <<"ticker">> ELSE <<>>)

LastTransition == writer.state_transitions[Len(writer.state_transitions)]

\* C13: a tick that finds a stream stalled leaves data_trust DEGRADED,
\* hypothesis WEAKENING and decision RESTRICTED whatever the state before,
\* and its trigger is stall: followed by the stalled streams' names in the
\* order trades, orderbook, liquidations, ticker.
C13_StalledTickRestricts ==
    [][(tk' = tk /\ ing' = ing /\ ing.pc = "idle" /\ clock' = clock
        /\ StalledNames # <<>> /\ writer' # writer)
       => /\ state'.data_trust = "DEGRADED"
          /\ state'.hypothesis = "WEAKENING"
          /\ state'.decision = "RESTRICTED"
          /\ LastTransition'.trigger = "stall:" \o Join(StalledNames, ",")
          /\ LastTransition'.decision = "RESTRICTED"
          /\ decision'.last_reason = LastTransition'.trigger]_vars

\* C13 witness: a tick found two streams stalled when the engine was HALTED
\* with the hypothesis INVALID
C13_Witness ==
    /\ Len(writer.state_transitions) >= 2
    /\ LastTransition.trigger \in {"stall:trades,orderbook", "stall:trades,ticker",
                                   "stall:orderbook,ticker"}
    /\ writer.state_transitions[Len(writer.state_transitions) - 1].decision = "HALTED"
    /\ writer.state_transitions[Len(writer.state_transitions) - 1].hypothesis = "INVALID"
    /\ state.decision = "RESTRICTED"

\* ------------------------------------- aligner specification, scenario values

\* TimeAligner.__init__: the configuration is in milliseconds
MsCfg(allowed_lateness_ms, max_buffer_ms) ==
    [allowed_lateness_us |-> allowed_lateness_ms * 1000,
     max_buffer_us |-> max_buffer_ms * 1000]

MsCfgs == {MsCfg(0, 1000), MsCfg(100, 1000), MsCfg(100, 0)}

\* the event times of scenarios S1 and S2, and an event without a time
MsEvents == [event_ts : {900000, 1000000, 1200000, 3000000, NULL}]

InitAlignerMs ==
    /\ cfg \in MsCfgs
    /\ lob = LobInit
    /\ decision = DecisionInit
    /\ seen = SeenInit
    /\ aligner = AlignerInit
    /\ ret = [out |-> <<>>, stats |-> [pushed |-> 0, emitted |-> 0, late |-> 0,
                                       forced_flush |-> FALSE, buffer_len |-> 0]]
    /\ emitted = <<>>
    /\ late_ties = {}
    /\ calls = 0
    /\ EngineRest

\* one call of TimeAligner.align with an event of the scenarios
AlignMsCall ==
    /\ calls < MaxAlign
    /\ \E ev \in MsEvents :
         LET r == align(aligner, cfg, ev) IN
         /\ aligner' = r.aligner
         /\ ret' = [out |-> r.out, stats |-> r.stats]
         /\ emitted' = emitted \o
                (IF ev.event_ts = NULL THEN <<<<NULL, NULL, ev>>>> ELSE r.popped)
         /\ late_ties' = IF r.stats.late = 1
                         THEN late_ties \cup {aligner.tie} ELSE late_ties
    /\ calls' = calls + 1
    /\ UNCHANGED <<main, cfg, lob, decisionVars, engineVars>>

NextAlignerMs == AlignMsCall

SpecAlignerMs == InitAlignerMs /\ [][NextAlignerMs]_vars

\* every entry pushed so far, emitted or still buffered
Entries == {e \in SeqRange(emitted) : e[1] # NULL} \cup aligner.heap

\* the event_ts of the i-th push (ties count the pushes from 0)
PushedTs(i) == (CHOOSE e \in Entries : e[2] = i)[1]

TsOf(evs) == [i \in 1..Len(evs) |-> evs[i].event_ts]

HeapTs == {e[1] : e \in aligner.heap}

ScenarioS1 ==
    /\ cfg = MsCfg(100, 1000)
    /\ calls = 3 /\ aligner.tie = 3
    /\ PushedTs(0) = 1000000 /\ PushedTs(1) = 900000 /\ PushedTs(2) = 1200000

\* C14 (as stated): in scenario S1 the third align call emits 900 000 and
\* 1 000 000, in that order, and 1 200 000 stays buffered.
C14_ThirdCallEmitsBoth ==
    ScenarioS1 => /\ TsOf(ret.out) = <<900000, 1000000>>
                  /\ HeapTs = {1200000}

\* C14 (amended): in scenario S1 the second call emits 900 000, which is not
\* above the watermark 900 000; the third call emits 1 000 000 alone; after
\* it the events emitted are 900 000 then 1 000 000 and 1 200 000 is
\* buffered.
C14_ThirdCallEmitsSecondOnly ==
    /\ (cfg = MsCfg(100, 1000) /\ calls = 2 /\ aligner.tie = 2
        /\ PushedTs(0) = 1000000 /\ PushedTs(1) = 900000)
       => /\ TsOf(ret.out) = <<900000>>
          /\ HeapTs = {1000000}
    /\ ScenarioS1 => /\ TsOf(ret.out) = <<1000000>>
                     /\ [i \in 1..Len(emitted) |-> emitted[i][1]]
                          = <<900000, 1000000>>
                     /\ HeapTs = {1200000}

C14_Witness == ScenarioS1 /\ ret.stats.emitted = 1 /\ ret.stats.buffer_len = 1

\* what the call that made the step pushed, popped and had buffered
NewlyEmitted == SubSeq(emitted', Len(emitted) + 1, Len(emitted'))

PushedEntry ==
    CHOOSE e \in aligner'.heap \cup SeqRange(NewlyEmitted) : e[2] = aligner.tie

Buffered == aligner.heap \cup {PushedEntry}

\* the rule's watermark, oldest and threshold for the step
RuleWatermark ==
    SetMax({e[1] : e \in Entries} \cup {PushedEntry[1]}) - cfg.allowed_lateness_us

RuleOldest == SetMin({e[1] : e \in Buffered})

RuleForced == RuleWatermark - RuleOldest > cfg.max_buffer_us

RuleThreshold ==
    IF RuleForced THEN RuleOldest + cfg.max_buffer_us ELSE RuleWatermark

ScenarioS2 ==
    /\ cfg = MsCfg(100, 1000)
    /\ calls = 2 /\ aligner.tie = 2
    /\ PushedTs(0) = 1000000 /\ PushedTs(1) = 3000000

\* C15: a call of align with an event that has an event_ts reports
\* forced_flush exactly when watermark - oldest > max_buffer_us, emits
\* exactly the buffered events with event_ts <= threshold, by event_ts and
\* then by arrival, and keeps the others; in scenario S2 it emits 1 000 000
\* with forced_flush and keeps 3 000 000.
C15_EmissionRule ==
    /\ [][(calls' = calls + 1 /\ aligner'.tie = aligner.tie + 1)
          => /\ ret'.stats.forced_flush = RuleForced
             /\ SeqRange(NewlyEmitted) = {e \in Buffered : e[1] <= RuleThreshold}
             /\ aligner'.heap = {e \in Buffered : e[1] > RuleThreshold}
             /\ Len(NewlyEmitted) = Cardinality(SeqRange(NewlyEmitted))
             /\ \A i, j \in 1..Len(NewlyEmitted) :
                   i < j => \/ NewlyEmitted[i][1] < NewlyEmitted[j][1]
                            \/ /\ NewlyEmitted[i][1] = NewlyEmitted[j][1]
                               /\ NewlyEmitted[i][2] < NewlyEmitted[j][2]
             /\ ret'.out = [i \in 1..Len(NewlyEmitted) |-> NewlyEmitted[i][3]]]_vars
    /\ [](ScenarioS2 => /\ TsOf(ret.out) = <<1000000>>
                        /\ ret.stats.forced_flush
                        /\ HeapTs = {3000000})

C15_Witness == ScenarioS2 /\ ret.stats.forced_flush /\ ret.stats.emitted = 1

\* sub occurs in the string s
Contains(s, sub) ==
    \E i \in 1..(Len(s) - Len(sub) + 1) : SubSeq(s, i, i + Len(sub) - 1) = sub

\* the event processed last was an ORDERBOOK snapshot row that was applied and
\* left best_bid >= best_ask, and the loop body is about to process a TRADES
\* event
CrossedThenTrade ==
    /\ ing.pc = "sanitize"
    /\ Head(ing.aligned_evs).stream = "trades"
    /\ ret.sanitization \in {"ACCEPT", "REPAIR"}
    /\ ret.ev.stream = "orderbook"
    /\ ret.ev.data.is_snapshot = 1
    /\ top(lob.orderbook).best_bid # NULL
    /\ top(lob.orderbook).best_ask # NULL
    /\ top(lob.orderbook).best_bid >= top(lob.orderbook).best_ask

\* C16 (as stated): when an ORDERBOOK snapshot has left best_bid >= best_ask,
\* processing the next TRADES event gives data_trust UNTRUSTED with a reason
\* containing crossed_market, and the decision after it is HALTED.
C16_CrossedMarketHalts ==
    [][(CrossedThenTrade /\ writer' # writer)
       => /\ state'.data_trust = "UNTRUSTED"
          /\ Contains(LastTransition'.trigger, "crossed_market")
          /\ state'.decision = "HALTED"]_vars

\* ------------------------------------------------- hypothesis specification

\* HypothesisPolicy.__init__: stable_min_duration is configured in ms
HypoCfg(weak, invalid, stable_min_duration_ms) ==
    [weak_price_diverge_bps |-> weak, invalid_price_diverge_bps |-> invalid,
     stable_min_duration_us |-> stable_min_duration_ms * 1000]

HypoCfgs == {HypoCfg(10, 100, 1000), HypoCfg(10, 100, 0)}

\* the replayer the policy reads: no book, or bid 1999 and ask 2001
HypoBooks ==
    {LobInit,
     [LobInit EXCEPT !.orderbook.bids = DictSet(EmptyDict, 1999, 1),
                     !.orderbook.asks = DictSet(EmptyDict, 2001, 1)]}

\* tickers 5, 20 and 600 bps off index and last, one without a mark price,
\* and a trade
HypoEvents ==
    {Event("ticker", "ex", 1,
           [mark_price |-> m, index_price |-> 2000, last_price |-> 2000]) :
        m \in {2001, 2004, 2020, NULL}}
    \cup {Event("trades", "ex", 1, [side |-> "buy", price |-> 2000, amount |-> 1])}

\* the times of the verify calls, in ms
VerifyTimes == {0, 500, 1000, 1600}

RetHypoInit ==
    [called |-> FALSE, ev |-> "None", now_us |-> NULL, before |-> HypothesisInit,
     state |-> "None", reason |-> "None"]

InitHypothesis ==
    /\ cfg \in HypoCfgs
    /\ aligner = AlignerInit
    /\ lob \in HypoBooks
    /\ decision = DecisionInit
    /\ ret = RetHypoInit
    /\ emitted = <<>>
    /\ late_ties = {}
    /\ seen = SeenInit
    /\ calls = 0
    /\ EngineRest

hypoFrame == <<main, cfg, aligner, lob, decision, emitted, late_ties, seen,
               sanitizer, trust, state, stats, writer,
               last_ingest_ts_by_stream, ing, tk, ticks>>

\* time passes to a later one of the call times
HypoTock ==
    /\ \E t \in VerifyTimes : t > clock /\ clock' = t
    /\ UNCHANGED <<hypoFrame, hypo, ret, calls, hist>>

\* one call hypothesis.verify(ev, now_us()); hist keeps the calls
VerifyCall ==
    /\ calls < MaxVerify
    /\ \E ev \in HypoEvents :
       \E r \in {verify(hypo, cfg, top(lob.orderbook), ev, time_now_us)} :
         /\ hypo' = r.hypo
         /\ ret' = [called |-> TRUE, ev |-> ev, now_us |-> time_now_us,
                    before |-> hypo, state |-> r.state, reason |-> r.reason]
         /\ hist' = Append(hist, [t |-> time_now_us, ev |-> ev,
                                  state |-> r.state, reason |-> r.reason])
    /\ calls' = calls + 1
    /\ UNCHANGED <<hypoFrame, clock>>

NextHypothesis ==
    \/ HypoTock
    \/ VerifyCall

SpecHypothesis == InitHypothesis /\ [][NextHypothesis]_vars

\* the ticker price the last call evaluates: the event's if it has one, the
\* one kept before otherwise
KeptPrice(field, kept) ==
    IF ret.ev.stream = "ticker" /\ Get(ret.ev.data, field) # NULL
    THEN ret.ev.data[field] ELSE kept

\* twice the witness prices of the last call, in the order lob_mid, mark,
\* index, last, trade, those that are positive
Witnesses ==
    LET tp == top(lob.orderbook)
        all == <<IF tp.best_bid # NULL /\ tp.best_ask # NULL
                 THEN tp.best_bid + tp.best_ask ELSE NULL,
                 2 * KeptPrice("mark_price", ret.before.last_mark),
                 2 * KeptPrice("index_price", ret.before.last_index),
                 2 * KeptPrice("last_price", ret.before.last_last),
                 IF ret.ev.stream \in {"trades", "liquidations"}
                 THEN 2 * ret.ev.data.price ELSE NULL>>
        Positive(x) == x > 0
    IN SelectSeq(all, Positive)

\* every pair of witnesses is less than weak_price_diverge_bps apart
BelowWeak ==
    \A i, j \in 1..Len(Witnesses) :
        i < j => Abs(Witnesses[i] - Witnesses[j]) * 10000
                    < cfg.weak_price_diverge_bps * Abs(Witnesses[j])

StableSince ==
    IF ret.before.stable_since_us = NULL THEN ret.now_us
    ELSE ret.before.stable_since_us

\* the three calls of scenario S5: 20 bps at 0, 5 bps at 500 ms and at 1600 ms
ScenarioS5 ==
    /\ cfg = HypoCfg(10, 100, 1000)
    /\ lob # LobInit
    /\ Len(hist) = 3
    /\ hist[1].t = 0 /\ hist[1].ev.stream = "ticker"
    /\ hist[1].ev.data.mark_price = 2004
    /\ hist[2].t = 500000 /\ hist[2].ev.stream = "ticker"
    /\ hist[2].ev.data.mark_price = 2001
    /\ hist[3].t = 1600000 /\ hist[3].ev.stream = "ticker"
    /\ hist[3].ev.data.mark_price = 2001

\* C20: a verify call with at least four witnesses, all less than the weak
\* threshold apart, sets stable_since to now_us if it was null; when now_us -
\* stable_since is below stable_min_duration_us the state stays what it was
\* and the reason contains stabilizing, otherwise the state becomes VALID.
\* In scenario S5 the three calls give WEAKENING, WEAKENING (stabilizing)
\* and VALID.
C20_StabilizationStep ==
    /\ (ret.called /\ Len(Witnesses) >= 4 /\ BelowWeak) =>
          /\ hypo.stable_since_us = StableSince
          /\ IF ret.now_us - StableSince < cfg.stable_min_duration_us
             THEN /\ hypo.state = ret.before.state
                  /\ ret.state = ret.before.state
                  /\ Contains(ret.reason, "stabilizing")
             ELSE /\ hypo.state = "VALID"
                  /\ ret.state = "VALID"
    /\ ScenarioS5 =>
          /\ hist[1].state = "WEAKENING"
          /\ hist[2].state = "WEAKENING"
          /\ Contains(hist[2].reason, "stabilizing")
          /\ hist[3].state = "VALID"

C20_Witness == ScenarioS5 /\ hypo.state = "VALID" /\ hypo.stable_since_us = 500000

\* ------------------------------------------- main, run_loop and tick_loop

MaxAdapters == 2

\* what the adapter yields each time it is built: the rows of the files in
\* historical mode, the messages of the socket in realtime mode
AdapterEvents ==
    IF cfg.allowed_lateness_us = 0
    THEN <<Event("trades", "ex", 1, [side |-> "buy", price |-> 100, amount |-> 1])>>
    ELSE <<Event("trades", "ex", 1, [side |-> "buy", price |-> 100, amount |-> 1]),
           Event("trades", "ex", 2, [side |-> "buy", price |-> 100, amount |-> 1])>>

Modes == {"historical", "realtime"}

\* SingleDecisionEngine.shutdown: the last DECISION record, then the summary
shutdown(W, now_ts) ==
    LET W1 == emit_decision(W, now_ts, W.decision.last_ts, W.state.decision,
                            W.decision.last_reason)
        f == finalize(W1.stats, now_ts)
    IN [world |-> [W1 EXCEPT !.stats = f.stats], summary |-> f.summary]

mainFrame == <<cfg, aligner, lob, decision, ret, emitted, late_ties, seen,
               calls, sanitizer, trust, hypo, state, stats, writer,
               last_ingest_ts_by_stream, clock, ing, tk, hist, ticks>>

\* main, lines 21-47: the mode is read, the tick thread is started
MainStart ==
    /\ main.pc = "main"
    /\ \E mode \in Modes :
         main' = [main EXCEPT !.pc = "run_loop", !.mode = mode,
                              !.tick_loop = "while"]
    /\ UNCHANGED mainFrame

\* run_loop, lines 44-46: build_adapter returns an adapter or raises
BuildAdapter ==
    /\ main.pc = "run_loop"
    /\ main.adapters < MaxAdapters
    /\ \/ main' = [main EXCEPT !.pc = "stream_events", !.adapter = 0,
                               !.adapters = @ + 1]
       \/ main' = [main EXCEPT !.pc = "except", !.error = TRUE]
    /\ UNCHANGED mainFrame

\* run_loop, lines 48-49: the adapter yields its next event and ingest
\* is called (engine.py lines 65-69)
StreamIngest ==
    /\ main.pc = "stream_events"
    /\ ing.pc = "idle"
    /\ main.adapter < Len(AdapterEvents)
    /\ LET b == ingest_begin(aligner, trust, last_ingest_ts_by_stream, cfg,
                             AdapterEvents[main.adapter + 1], time_now_us) IN
         /\ aligner' = b.aligner
         /\ trust' = b.trust
         /\ last_ingest_ts_by_stream' = b.last_ingest_ts_by_stream
         /\ ing' = IF Len(b.aligned_evs) = 0 THEN IngInit
                   ELSE [IngInit EXCEPT !.pc = "sanitize",
                                        !.now_ts = time_now_us,
                                        !.aligned_evs = b.aligned_evs]
    /\ main' = [main EXCEPT !.adapter = @ + 1]
    /\ UNCHANGED <<cfg, lob, decision, ret, emitted, late_ties, seen, calls,
                   sanitizer, hypo, state, stats, writer, clock, tk, hist,
                   ticks>>

\* run_loop, line 48: stream_events raises instead of yielding
StreamError ==
    /\ main.pc = "stream_events"
    /\ ing.pc = "idle"
    /\ main' = [main EXCEPT !.pc = "except", !.error = TRUE]
    /\ UNCHANGED mainFrame

\* run_loop, lines 51-57: the adapter is exhausted
StreamEnd ==
    /\ main.pc = "stream_events"
    /\ ing.pc = "idle"
    /\ main.adapter = Len(AdapterEvents)
    /\ main' = [main EXCEPT !.pc = IF main.mode = "historical"
                                   THEN "replay_completed" ELSE "restart"]
    /\ UNCHANGED mainFrame

\* run_loop, lines 59-61: the handler of Exception, whatever the mode
ExceptException ==
    /\ main.pc = "except"
    /\ main' = [main EXCEPT !.pc = "restart"]
    /\ UNCHANGED mainFrame

\* run_loop, lines 57 or 61, 63-65 and 43: the sleep is over, the adapter
\* is closed and the loop starts again
Restart ==
    /\ main.pc = "restart"
    /\ main' = [main EXCEPT !.pc = "run_loop", !.adapter = NULL]
    /\ UNCHANGED mainFrame

\* KeyboardInterrupt in the main thread while it is in run_loop: the call in
\* flight is abandoned, run_loop's finally closes the adapter and main goes
\* to its own finally (lines 56-59)
Interrupt ==
    /\ main.pc \in {"run_loop", "stream_events", "replay_completed",
                    "except", "restart"}
    /\ main' = [main EXCEPT !.pc = "finally", !.adapter = NULL]
    /\ ing' = IngInit
    /\ UNCHANGED <<cfg, aligner, lob, decision, ret, emitted, late_ties, seen,
                   calls, sanitizer, trust, hypo, state, stats, writer,
                   last_ingest_ts_by_stream, clock, tk, hist, ticks>>

\* main, line 61
StopEventSet ==
    /\ main.pc = "finally"
    /\ main' = [main EXCEPT !.pc = "shutdown", !.stop_event = TRUE]
    /\ UNCHANGED mainFrame

\* main, line 64: engine.shutdown()
ShutdownCall ==
    /\ main.pc = "shutdown"
    /\ \E r \in {shutdown(TheWorld, time_now_us)} :
         /\ Install(r.world)
         /\ main' = [main EXCEPT !.pc = "finalize", !.summary = <<r.summary>>]
    /\ UNCHANGED <<cfg, aligner, ret, emitted, late_ties, seen, calls,
                   last_ingest_ts_by_stream, clock, ing, tk, hist, ticks>>

\* main, line 66: writer.finalize() closes the files; main returns and the
\* daemon thread ends with the process
WriterFinalize ==
    /\ main.pc = "finalize"
    /\ main' = [main EXCEPT !.pc = "exit", !.closed = TRUE]
    /\ UNCHANGED mainFrame

\* tick_loop, line 18
TickLoopTest ==
    /\ main.pc # "exit"
    /\ main.tick_loop = "while"
    /\ main' = [main EXCEPT !.tick_loop = IF main.stop_event THEN "ended"
                                          ELSE "tick"]
    /\ UNCHANGED mainFrame

\* tick_loop, line 20: the call of tick, its scan (engine.py lines 100-120)
TickLoopScan ==
    /\ main.pc # "exit"
    /\ main.tick_loop = "tick"
    /\ tk.pc = "idle"
    /\ LET stalled == stalled_streams(last_ingest_ts_by_stream, cfg,
                                      time_now_us) IN
       /\ Len(stalled) > 0 => ticks < MaxTick
       /\ tk' = IF Len(stalled) = 0 THEN tk
                ELSE [pc |-> "set_data_trust", now_ts |-> time_now_us,
                      stalled_streams |-> stalled,
                      sanitization |-> state.sanitization,
                      decision |-> "None"]
       /\ main' = IF Len(stalled) = 0 THEN [main EXCEPT !.tick_loop = "sleep"]
                  ELSE main
    /\ UNCHANGED <<cfg, aligner, lob, decision, ret, emitted, late_ties, seen,
                   calls, sanitizer, trust, hypo, state, stats, writer,
                   last_ingest_ts_by_stream, clock, ing, hist, ticks>>

\* the statements of ingest and of tick, while the process runs
MainIngestStep ==
    /\ main.pc # "exit"
    /\ \/ IngestSanitize
       \/ IngestReplay
       \/ IngestDataTrust
       \/ IngestVerify
       \/ IngestSetDecision
       \/ IngestStats

MainTickStep ==
    /\ main.pc # "exit"
    /\ main.tick_loop = "tick"
    /\ \/ TickSetDataTrust
       \/ TickSetHypothesis
       \/ TickSetDecision

\* tick, line 130, its return, and tick_loop line 23
TickLoopStats ==
    /\ main.pc # "exit"
    /\ main.tick_loop = "tick"
    /\ tk.pc = "stats"
    /\ Install([TheWorld EXCEPT !.stats =
                   stats_on_event(@, tk.sanitization, "DEGRADED", "WEAKENING",
                                  tk.decision)])
    /\ tk' = [pc |-> "idle", now_ts |-> NULL, stalled_streams |-> <<>>,
              sanitization |-> "None", decision |-> "None"]
    /\ ticks' = ticks + 1
    /\ main' = [main EXCEPT !.tick_loop = "sleep"]
    /\ UNCHANGED <<cfg, aligner, ret, emitted, late_ties, seen, calls,
                   last_ingest_ts_by_stream, clock, ing, hist>>

\* tick_loop, line 23: the sleep is over
TickLoopSleep ==
    /\ main.pc # "exit"
    /\ main.tick_loop = "sleep"
    /\ main' = [main EXCEPT !.tick_loop = "while"]
    /\ UNCHANGED mainFrame

MainTock == main.pc # "exit" /\ Tock

NextMain ==
    \/ MainTock
    \/ MainStart
    \/ BuildAdapter
    \/ StreamIngest
    \/ StreamError
    \/ StreamEnd
    \/ ExceptException
    \/ Restart
    \/ Interrupt
    \/ StopEventSet
    \/ ShutdownCall
    \/ WriterFinalize
    \/ TickLoopTest
    \/ TickLoopScan
    \/ MainIngestStep
    \/ MainTickStep
    \/ TickLoopStats
    \/ TickLoopSleep

SpecMain == InitEngine /\ [][NextMain]_vars

\* C21 (as stated): after main sets the stop signal, no call of engine.tick
\* is running when engine.shutdown computes the summary, nor when
\* writer.finalize closes the output files.
C21_TickOverBeforeFinalize ==
    [][(main.pc = "shutdown" \/ main.pc = "finalize") /\ main'.pc # main.pc
          => tk.pc = "idle"]_vars

\* C22 (as stated): in historical mode an error raised by build_adapter or
\* by stream_events ends run_loop: after the error run_loop neither sleeps
\* before a restart nor builds an adapter nor reads events again.
C22_HistoricalErrorAborts ==
    main.mode = "historical" /\ main.error
       => main.pc \notin {"restart", "run_loop", "stream_events",
                          "replay_completed"}

\* ------------------------------------------------ the records of the engine

LastDecision == writer.decisions[Len(writer.decisions)]

\* the times the dwell tracker d has flushed a span of label k
SpanCount(d, k) == IF k \in DOMAIN d.entries THEN d.entries[k] ELSE 0

\* C23 (as stated): a call of _set_decision writes a DECISION record exactly
\* when the recomputed decision differs from the previous one or the trigger
\* differs from the previous span's reason; the record carries the previous
\* decision, the previous reason, the previous span's entry timestamp and
\* duration_ms = (now - entry timestamp) div 1000, and the decision-dwell
\* span of the previous decision is closed by the call.
C23_DecisionRecordPerSpan ==
    [][Len(writer'.state_transitions) = Len(writer.state_transitions) + 1
       => /\ (Len(writer'.decisions) = Len(writer.decisions) + 1)
               <=> (\/ state'.decision # state.decision
                    \/ LastTransition'.trigger # decision.last_reason)
          /\ Len(writer'.decisions) = Len(writer.decisions) + 1
               => /\ LastDecision'.action = state.decision
                  /\ LastDecision'.reason = decision.last_reason
                  /\ LastDecision'.ts = decision.last_ts
                  /\ LastDecision'.duration_ms
                       = (LastTransition'.ts - decision.last_ts) \div 1000
                  /\ SpanCount(stats'.decision_dwell, state.decision)
                       = SpanCount(stats.decision_dwell, state.decision) + 1
      ]_vars

\* C24 (as stated): the number of STATE_TRANSITION records written equals
\* total_events: one record per processed aligned event, one per tick that
\* found a stalled stream, and no other records.
C24_TransitionsEqualTotalEvents ==
    Len(writer.state_transitions) = stats.total_events

\* C24 (amended): after the engine_init record the constructor writes, the
\* state-transition output grows by exactly one record, appended at its end,
\* for each processed aligned event and each tick that found a stalled
\* stream; its length is total_events + 1, and a tick with no stalled stream
\* writes nothing.
C24_TransitionsAfterInitRecord ==
    /\ [](/\ Len(writer.state_transitions) = stats.total_events + 1
          /\ writer.state_transitions[1].trigger = "engine_init")
    /\ [][/\ Len(writer'.state_transitions) - Len(writer.state_transitions)
             = stats'.total_events - stats.total_events
          /\ stats'.total_events - stats.total_events \in {0, 1}
          /\ SubSeq(writer'.state_transitions, 1,
                    Len(writer.state_transitions)) = writer.state_transitions
          /\ (ing' = ing /\ StalledNames = <<>>) => writer' = writer]_vars

\* C24 witness: records of two processed events and of a stall tick follow
\* the engine_init record
C24_Witness ==
    /\ stats.total_events = 3
    /\ Len(writer.state_transitions) = 4
    /\ \E i \in 2..4 :
         SubSeq(writer.state_transitions[i].trigger, 1, 6) = "stall:"
    /\ \E i \in 2..4 :
         SubSeq(writer.state_transitions[i].trigger, 1, 6) # "stall:"

\* C25: a sanitize call that returns ACCEPT or QUARANTINE returns the input
\* event itself; a call that returns REPAIR returns an event equal to the
\* input in stream, event_ts, ingest_ts and event_id, which differs from it
\* in exchange, symbol or data only.
C25_SanitizeReturnsInputOrClone ==
    (ret.called /\ ~ret.raised)
       => /\ ret.status \in {"ACCEPT", "QUARANTINE"} => ret.out = ret.ev
          /\ ret.status = "REPAIR"
               => /\ DOMAIN ret.out = DOMAIN ret.ev
                  /\ \A k \in DOMAIN ret.ev \ {"exchange", "symbol", "data"} :
                       ret.out[k] = ret.ev[k]

\* C25 witness: a REPAIR whose returned event carries other data than the
\* input, after calls that returned ACCEPT and QUARANTINE
C25_Witness ==
    /\ ret.called /\ ~ret.raised
    /\ ret.status = "REPAIR"
    /\ ret.out.data # ret.ev.data
    /\ ret.out.event_ts = ret.ev.event_ts

\* ------------------------------------------- replayer specification

MaxReplay == 4

\* rows of the order-book stream as the adapters build them, with all four
\* keys: valid rows, rows whose side is None or not a side of the book, and
\* rows whose price or amount is None
ReplayRows ==
    {Event("orderbook", "ex", 1, BookRow(sn, sd, p, a)) :
        sn \in {0, 1}, sd \in {"bid", "ask"}, p \in 1..2, a \in {1}}
    \cup {Event("orderbook", "ex", 1, BookRow(sn, sd, 1, 1)) :
            sn \in {0, 1}, sd \in {"None", "buy"}}
    \cup {Event("orderbook", "ex", 1, BookRow(sn, "bid", x[1], x[2])) :
            sn \in {0, 1}, x \in {<<NULL, 1>>, <<2, NULL>>}}

\* ret of the replayer specification: the row of the last call, the replayer
\* as the call found it, and the levels written by the valid snapshot rows
\* received since the last valid delta
RetReplayInit == [ev |-> "None", before |-> LobInit, run |-> {}]

InitReplayer ==
    /\ cfg \in [depth_limit : {0, 1}]
    /\ lob = LobInit
    /\ ret = RetReplayInit
    /\ aligner = AlignerInit
    /\ emitted = <<>>
    /\ late_ties = {}
    /\ decision = DecisionInit
    /\ seen = SeenInit
    /\ calls = 0
    /\ EngineRest

\* one call of OrderBookReplayer.on_event
ReplayCall ==
    /\ calls < MaxReplay
    /\ \E ev \in ReplayRows :
         /\ lob' = on_event(lob, cfg.depth_limit, ev, time_now_us)
         /\ ret' = [ev |-> ev, before |-> lob,
                    run |-> IF ~ValidRow(ev) THEN ret.run
                            ELSE IF ev.data.is_snapshot = 1
                            THEN ret.run \cup {<<ev.data.side, ev.data.price>>}
                            ELSE {}]
    /\ calls' = calls + 1
    /\ UNCHANGED <<main, cfg, alignerVars, decisionVars, engineVars>>

NextReplayer == ReplayCall

SpecReplayer == InitReplayer /\ [][NextReplayer]_vars

\* the levels of a book, as pairs of side and price
Levels(ob) ==
    {<<"bid", p>> : p \in DOMAIN ob.bids} \cup {<<"ask", p>> : p \in DOMAIN ob.asks}

\* the level a row names
RowLevel(ev) == <<ev.data.side, ev.data.price>>

\* the call that received ev left every level in place but those _trim
\* drops from the side it wrote
NotCleared(ev) ==
    \A l \in Levels(lob.orderbook) \ Levels(lob'.orderbook) :
        l[1] = ev.data.side /\ cfg.depth_limit > 0

\* C26: a valid snapshot row that arrives while snapshot_active is false
\* clears the book before it is written; any other row leaves the levels in
\* place; a valid snapshot row sets snapshot_active and a valid delta resets
\* it; so while snapshot_active holds, the book has only levels written by
\* the snapshot rows received since the last valid delta.
C26_SnapshotPhase ==
    /\ [][calls' = calls + 1
          => /\ (ValidRow(ret'.ev) /\ ret'.ev.data.is_snapshot = 1
                 /\ ~lob.snapshot_active)
                  => /\ Levels(lob'.orderbook) = {RowLevel(ret'.ev)}
                     /\ lob'.snapshot_active
             /\ (ValidRow(ret'.ev) /\ ret'.ev.data.is_snapshot = 1
                 /\ lob.snapshot_active)
                  => /\ NotCleared(ret'.ev)
                     /\ RowLevel(ret'.ev) \in Levels(lob'.orderbook)
                          \/ cfg.depth_limit > 0
                     /\ lob'.snapshot_active
             /\ (ValidRow(ret'.ev) /\ ret'.ev.data.is_snapshot = 0)
                  => /\ NotCleared(ret'.ev)
                     /\ ~lob'.snapshot_active]_vars
    /\ [](lob.snapshot_active => Levels(lob.orderbook) \subseteq ret.run)

\* C26 witness: a snapshot row arrived after deltas had written another
\* level, and the book holds the row's level only
C26_Witness ==
    /\ calls > 0
    /\ ValidRow(ret.ev) /\ ret.ev.data.is_snapshot = 1
    /\ ~ret.before.snapshot_active
    /\ Levels(ret.before.orderbook) \ {RowLevel(ret.ev)} # {}
    /\ Levels(lob.orderbook) = {RowLevel(ret.ev)}
    /\ lob.snapshot_active

\* a row whose side is not a side of the book or whose price or amount is
\* not a number
InvalidRow(ev) ==
    \/ ev.data.side \notin {"bid", "ask"}
    \/ ev.data.price = NULL
    \/ ev.data.amount = NULL

\* C27: on_event given an order-book row whose side is not bid or ask, or
\* whose price or amount is not numeric, returns leaving the book and the
\* snapshot_active flag as they were.
C27_InvalidRowDropped ==
    (calls > 0 /\ InvalidRow(ret.ev)) => lob = ret.before

\* C27 witness: an invalid delta row arrived while a snapshot was being
\* built, and the book and the flag are as before
C27_Witness ==
    /\ calls > 0
    /\ InvalidRow(ret.ev)
    /\ ret.ev.data.is_snapshot = 0
    /\ lob.snapshot_active
    /\ Levels(lob.orderbook) # {}

\* ------------------------------------------- data-trust specification

MaxTrust == 4

\* the engine's thresholds with a window of one or two entries
TrustCfgs == {[EngineCfg EXCEPT !.window_events = w] : w \in 1..2}

\* the books the policy reads: empty, 100 / 101, crossed, and a wide spread
TrustBooks ==
    {LobInit,
     [LobInit EXCEPT !.orderbook.bids = DictSet(EmptyDict, 100, 1),
                     !.orderbook.asks = DictSet(EmptyDict, 101, 1)],
     [LobInit EXCEPT !.orderbook.bids = DictSet(EmptyDict, 101, 1),
                     !.orderbook.asks = DictSet(EmptyDict, 100, 1)],
     [LobInit EXCEPT !.orderbook.bids = DictSet(EmptyDict, 100, 1),
                     !.orderbook.asks = DictSet(EmptyDict, 110, 1)]}

\* what align reports of a call: the event emitted at once, emitted late,
\* buffered behind another one, and a forced flush of two events
TrustBatches ==
    {[emitted |-> 1, late |-> 0, forced_flush |-> FALSE, buffer_len |-> 0],
     [emitted |-> 1, late |-> 1, forced_flush |-> FALSE, buffer_len |-> 0],
     [emitted |-> 0, late |-> 0, forced_flush |-> FALSE, buffer_len |-> 2],
     [emitted |-> 2, late |-> 0, forced_flush |-> TRUE, buffer_len |-> 0]}

\* trades at, near and far from the mid of the books, and a book row
TrustEvents ==
    {Event("trades", "ex", 1, [side |-> "buy", price |-> p, amount |-> 1]) :
        p \in {100, 102, 120}}
    \cup {Event("orderbook", "ex", 1, BookRow(0, "bid", 100, 1))}

\* ret of the data-trust specification: the call made, its stream, the
\* entry it appended, the windows as it found them, what _eval_stream
\* collected and what on_event returned
RetTrustInit ==
    [op |-> "None", stream |-> "None", entry |-> <<>>, before |-> DataTrustInit,
     untrusted_reasons |-> <<>>, degraded_reasons |-> <<>>,
     state |-> "None", reason |-> "None"]

InitTrust ==
    /\ cfg \in TrustCfgs
    /\ lob \in TrustBooks
    /\ ret = RetTrustInit
    /\ aligner = AlignerInit
    /\ emitted = <<>>
    /\ late_ties = {}
    /\ decision = DecisionInit
    /\ seen = SeenInit
    /\ calls = 0
    /\ EngineRest

trustFrame == <<main, cfg, aligner, lob, decision, emitted, late_ties, seen,
                sanitizer, hypo, state, stats, writer,
                last_ingest_ts_by_stream, clock, ing, tk, hist, ticks>>

\* one call data_trust.on_batch(stream, align_stats)
BatchCall ==
    /\ calls < MaxTrust
    /\ \E stream \in {"trades", "orderbook"}, b \in TrustBatches :
         /\ trust' = on_batch(trust, cfg, stream, b)
         /\ ret' = [RetTrustInit EXCEPT
                      !.op = "on_batch", !.stream = stream,
                      !.entry = <<b.emitted, b.late,
                                  IF b.forced_flush THEN 1 ELSE 0,
                                  b.buffer_len>>,
                      !.before = trust]
    /\ calls' = calls + 1
    /\ UNCHANGED trustFrame

\* one call data_trust.on_event(stream, sanitization, ev)
EventCall ==
    /\ calls < MaxTrust
    /\ \E ev \in TrustEvents, sanitization \in {"ACCEPT", "QUARANTINE"} :
       \E r \in {trust_on_event(trust, cfg, top(lob.orderbook), ev.stream,
                                sanitization, ev)} :
       \E e \in {eval_stream([r.trust EXCEPT !.last_trade_price =
                                                 trust.last_trade_price],
                             cfg, top(lob.orderbook), ev.stream,
                             sanitization, ev)} :
         /\ trust' = r.trust
         /\ ret' = [op |-> "on_event", stream |-> ev.stream,
                    entry |-> <<IF sanitization = "QUARANTINE" THEN 1 ELSE 0>>,
                    before |-> trust,
                    untrusted_reasons |-> e.untrusted_reasons,
                    degraded_reasons |-> e.degraded_reasons,
                    state |-> r.state, reason |-> r.reason]
    /\ calls' = calls + 1
    /\ UNCHANGED trustFrame

NextTrust == BatchCall \/ EventCall

SpecTrust == InitTrust /\ [][NextTrust]_vars

\* C28: the verdict on_event returns is UNTRUSTED iff the stored verdict of
\* some stream is UNTRUSTED, otherwise DEGRADED iff some stored verdict is
\* DEGRADED, otherwise TRUSTED; and the verdict stored for the evaluated
\* stream is UNTRUSTED if its evaluation produced an untrusted reason, else
\* DEGRADED if it produced a degraded reason, else TRUSTED.
C28_GlobalVerdict ==
    ret.op = "on_event"
      => LET Some(v) == \E x \in StreamSet : trust.state_by_stream[x] = v IN
         /\ ret.state = "UNTRUSTED" <=> Some("UNTRUSTED")
         /\ ret.state = "DEGRADED" <=> (~Some("UNTRUSTED") /\ Some("DEGRADED"))
         /\ ret.state = "TRUSTED" <=> (~Some("UNTRUSTED") /\ ~Some("DEGRADED"))
         /\ trust.state_by_stream[ret.stream]
              = (IF ret.untrusted_reasons # <<>> THEN "UNTRUSTED"
                 ELSE IF ret.degraded_reasons # <<>> THEN "DEGRADED"
                 ELSE "TRUSTED")

\* C28 witness: on_event returned UNTRUSTED for an event whose own stream
\* was evaluated DEGRADED, the verdict stored for another stream being
\* UNTRUSTED
C28_Witness ==
    /\ ret.op = "on_event"
    /\ ret.state = "UNTRUSTED"
    /\ trust.state_by_stream[ret.stream] = "DEGRADED"
    /\ ret.untrusted_reasons = <<>>
    /\ ret.degraded_reasons # <<>>

\* the sum of the i-th fields of the entries of a window
RECURSIVE WindowSum(_, _)
WindowSum(w, i) == IF w = <<>> THEN 0 ELSE Head(w)[i] + WindowSum(Tail(w), i)

\* the last n entries of a sequence
LastN(sq, n) ==
    IF Len(sq) <= n THEN sq ELSE SubSeq(sq, Len(sq) - n + 1, Len(sq))

\* C29: after every on_batch and on_event call, each stream's align window
\* and quarantine window hold at most window_events entries, the most
\* recent ones, and the running sums emitted, late, forced and quarantine
\* equal the sums of those fields over the entries in the window.
C29_WindowsAndSums ==
    /\ \A x \in StreamSet :
         /\ Len(trust.align_window[x]) <= cfg.window_events
         /\ Len(trust.san_quarantine_window[x]) <= cfg.window_events
         /\ trust.align_emitted_sum[x] = WindowSum(trust.align_window[x], 1)
         /\ trust.align_late_sum[x] = WindowSum(trust.align_window[x], 2)
         /\ trust.align_forced_sum[x] = WindowSum(trust.align_window[x], 3)
         /\ trust.san_quarantine_sum[x]
              = WindowSum([i \in 1..Len(trust.san_quarantine_window[x]) |->
                             <<trust.san_quarantine_window[x][i]>>], 1)
    /\ ret.op = "on_batch"
         => trust.align_window[ret.stream]
              = LastN(Append(ret.before.align_window[ret.stream], ret.entry),
                      cfg.window_events)
    /\ ret.op = "on_event"
         => trust.san_quarantine_window[ret.stream]
              = LastN(Append(ret.before.san_quarantine_window[ret.stream],
                             ret.entry[1]),
                      cfg.window_events)

\* C29 witness: on_event dropped a quarantined entry from a full quarantine
\* window and its sum went down, while an align window is full and counts a
\* late event
C29_Witness ==
    /\ ret.op = "on_event"
    /\ Len(ret.before.san_quarantine_window[ret.stream]) = cfg.window_events
    /\ ret.before.san_quarantine_window[ret.stream][1] = 1
    /\ ret.before.san_quarantine_sum[ret.stream]
         > trust.san_quarantine_sum[ret.stream]
    /\ \E x \in StreamSet :
         /\ Len(trust.align_window[x]) = cfg.window_events
         /\ trust.align_late_sum[x] > 0

\* C30: when fewer than four witnesses with a positive value are available,
\* verify returns the state it found, with a reason that contains
\* insufficient_sources= and their number, and leaves the state and
\* stable_since as they were.
C30_ConsensusGate ==
    (ret.called /\ Len(Witnesses) < 4)
       => /\ ret.state = ret.before.state
          /\ hypo.state = ret.before.state
          /\ hypo.stable_since_us = ret.before.stable_since_us
          /\ Contains(ret.reason,
                      "insufficient_sources=" \o ToString(Len(Witnesses)))

\* C30 witness: a ticker arrived with three witnesses while a stable window
\* was open, and the window's start is kept
C30_Witness ==
    /\ ret.called
    /\ Len(Witnesses) = 3
    /\ ret.before.stable_since_us # NULL
    /\ hypo.stable_since_us = ret.before.stable_since_us
    /\ Contains(ret.reason, "insufficient_sources=3")

\* some pair of witnesses, the earlier against the later, is at least bps
\* apart: the worst pair is
WorstAtLeast(bps) ==
    \E i, j \in 1..Len(Witnesses) :
        i < j /\ Abs(Witnesses[i] - Witnesses[j]) * 10000
                    >= bps * Abs(Witnesses[j])

\* C31: on a verify call with at least four witnesses, if worst_bps is at
\* least invalid_price_diverge_bps the state becomes INVALID, otherwise if
\* it is at least weak_price_diverge_bps the state becomes WEAKENING, and in
\* both cases stable_since is reset to null, whatever the state before.
C31_DivergenceSetsState ==
    (ret.called /\ Len(Witnesses) >= 4)
       => /\ WorstAtLeast(cfg.invalid_price_diverge_bps)
               => /\ hypo.state = "INVALID" /\ ret.state = "INVALID"
                  /\ hypo.stable_since_us = NULL
          /\ (~WorstAtLeast(cfg.invalid_price_diverge_bps)
              /\ WorstAtLeast(cfg.weak_price_diverge_bps))
               => /\ hypo.state = "WEAKENING" /\ ret.state = "WEAKENING"
                  /\ hypo.stable_since_us = NULL

\* C31 witness: a VALID hypothesis with an open stable window met witnesses
\* 20 bps apart and became WEAKENING with the window reset
C31_Witness ==
    /\ ret.called
    /\ Len(Witnesses) >= 4
    /\ ret.before.state = "VALID"
    /\ ret.before.stable_since_us # NULL
    /\ ~WorstAtLeast(cfg.invalid_price_diverge_bps)
    /\ hypo.state = "WEAKENING"
    /\ hypo.stable_since_us = NULL

\* ------------------------------------------------ CsvAdapter specification

MaxRows == 2

\* a data row of a file, by its two time columns as to_int reads them: None
\* for an empty or non-parseable cell
CsvRows == [timestamp : {NULL, 1}, local_timestamp : {NULL, 1, 2}]

\* the files of a data directory: rows in the trades and the order-book
\* file, none in the other two
CsvFiles ==
    {[x \in StreamSet |-> IF x = "trades" THEN f[1]
                          ELSE IF x = "orderbook" THEN f[2] ELSE <<>>] :
        f \in [1..2 -> UNION {[1..n -> CsvRows] : n \in 0..MaxRows}]}

\* CsvAdapter._row_to_event: the subtraction ingest_ts - event_ts of lines
\* 72, 101 and 119 raises TypeError when event_ts is read and ingest_ts is
\* None; the order-book case makes no such subtraction
row_to_event(stream, row, i) ==
    IF stream # "orderbook" /\ row.timestamp # NULL
       /\ row.local_timestamp = NULL
    THEN [raised |-> TRUE]
    ELSE [raised |-> FALSE,
          ev |-> [stream |-> stream, event_ts |-> row.timestamp,
                  ingest_ts |-> row.local_timestamp, row |-> i]]

\* next(it, None) of the iterator _iter_csv of a stream that has consumed n
\* rows of its file
iter_next(files, stream, n) ==
    IF n >= Len(files[stream]) THEN [raised |-> FALSE, end |-> TRUE]
    ELSE row_to_event(stream, files[stream][n + 1], n + 1) @@ [end |-> FALSE]

\* heapq.heappop on tuples that start with (ingest_ts, tie)
CsvHeapTop(h) ==
    CHOOSE e \in h : \A o \in h :
        e.ingest_ts < o.ingest_ts
        \/ (e.ingest_ts = o.ingest_ts /\ e.tie <= o.tie)

\* the adapter before stream_events: ret keeps the files, the rows each
\* iterator has consumed, the heap, the events yielded, and where the
\* generator is
RetCsvInit(files) ==
    [files |-> files, consumed |-> [x \in StreamSet |-> 0], heap |-> {},
     tie |-> 0, yielded |-> <<>>, pc |-> "open", k |-> 1]

InitCsv ==
    /\ cfg = EngineCfg
    /\ ret \in {RetCsvInit(f) : f \in CsvFiles}
    /\ lob = LobInit
    /\ aligner = AlignerInit
    /\ emitted = <<>>
    /\ late_ties = {}
    /\ decision = DecisionInit
    /\ seen = SeenInit
    /\ calls = 0
    /\ EngineRest

csvFrame == <<main, cfg, aligner, lob, decision, emitted, late_ties, seen, calls,
              sanitizer, trust, hypo, state, stats, writer,
              last_ingest_ts_by_stream, clock, ing, tk, hist, ticks>>

\* the adapter after next(it, None) on the iterator of stream returned n
CsvAfterNext(a, stream, n) ==
    LET a1 == [a EXCEPT !.consumed[stream] = IF n.end THEN @ ELSE @ + 1] IN
    IF n.raised THEN [a1 EXCEPT !.pc = "raised"]
    ELSE IF ~n.end /\ n.ev.ingest_ts # NULL
    THEN [a1 EXCEPT !.heap = @ \cup {[ingest_ts |-> n.ev.ingest_ts,
                                     tie |-> a.tie, stream |-> stream,
                                     ev |-> n.ev]},
                    !.tie = @ + 1]
    ELSE a1

\* stream_events, lines 151-156: the first event of the next file
CsvFirst ==
    /\ ret.pc = "open"
    /\ LET stream == Streams[ret.k]
           a == CsvAfterNext(ret, stream,
                             iter_next(ret.files, stream, ret.consumed[stream]))
       IN ret' = IF a.pc = "raised" THEN a
                 ELSE [a EXCEPT !.k = @ + 1,
                                !.pc = IF ret.k = Len(Streams) THEN "loop"
                                       ELSE "open"]
    /\ UNCHANGED csvFrame

\* stream_events, lines 160-176: one pass of the loop, or its end
CsvYield ==
    /\ ret.pc = "loop"
    /\ IF ret.heap = {} THEN ret' = [ret EXCEPT !.pc = "done"]
       ELSE LET e == CsvHeapTop(ret.heap)
                a == [ret EXCEPT !.heap = @ \ {e},
                                 !.yielded = Append(@, e.ev)]
            IN ret' = CsvAfterNext(a, e.stream,
                                   iter_next(ret.files, e.stream,
                                             ret.consumed[e.stream]))
    /\ UNCHANGED csvFrame

NextCsv == CsvFirst \/ CsvYield

SpecCsv == InitCsv /\ [][NextCsv]_vars

\* the events yielded for row i of the file of stream x
YieldedOf(x, i) ==
    {n \in 1..Len(ret.yielded) :
        ret.yielded[n].stream = x /\ ret.yielded[n].row = i}

\* C32 (as stated): stream_events never fails on a malformed time column and
\* yields every data row of every file exactly once, the rows with an empty
\* or non-parseable local_timestamp or timestamp and the rows that follow
\* them included.
C32_EveryRowYieldedOnce ==
    /\ ret.pc # "raised"
    /\ ret.pc = "done"
         => \A x \in StreamSet : \A i \in 1..Len(ret.files[x]) :
               Cardinality(YieldedOf(x, i)) = 1

\* a call of ingest or of tick returns in this step
CallReturns ==
    \/ ing.pc = "stats" /\ ing'.pc = "idle"
    \/ tk.pc = "stats" /\ tk'.pc = "idle"

\* C33 (as stated): every STATE_TRANSITION record carries the decision that
\* compute gives for the data_trust and hypothesis of the same record, and
\* when a call of ingest or of tick returns the engine's decision field is
\* compute of its data_trust and hypothesis fields, in every interleaving of
\* the tick thread with the ingest loop.
C33_DecisionIsComputeOfState ==
    /\ [](\A i \in 1..Len(writer.state_transitions) :
            LET rec == writer.state_transitions[i] IN
            rec.decision = compute(decision, rec.data_trust, rec.hypothesis))
    /\ [][CallReturns
            => state'.decision = compute(decision', state'.data_trust,
                                         state'.hypothesis)]_vars

\* the entries of the emitted lists that carry tie i
EmittedWithTie(i) == {n \in 1..Len(emitted) : emitted[n][2] = i}

\* the events with null event_ts in the emitted lists
EmittedNull == {n \in 1..Len(emitted) : emitted[n][1] = NULL}

\* C34: across any sequence of align calls no event is lost or duplicated:
\* every event that was pushed is in the emitted list of exactly one call or
\* still in the buffer, never both, and an event with null event_ts is in the
\* list of its own call; the buffer_len of each call is the buffer size after
\* the call, which for an event with non-null event_ts is the previous size
\* plus one minus the number emitted.
C34_NoEventLostOrDuplicated ==
    /\ [](/\ \A i \in 0..(aligner.tie - 1) :
               Cardinality(EmittedWithTie(i))
                 + Cardinality({e \in aligner.heap : e[2] = i}) = 1
          /\ aligner.tie + Cardinality(EmittedNull) = calls
          /\ Len(emitted) + Cardinality(aligner.heap) = calls
          /\ ret.stats.buffer_len = Cardinality(aligner.heap))
    /\ [][/\ Len(emitted') = Len(emitted) + ret'.stats.emitted
          /\ aligner'.tie = aligner.tie + 1
               => ret'.stats.buffer_len
                    = Cardinality(aligner.heap) + 1 - ret'.stats.emitted]_vars

\* C34 witness: one call emitted two buffered events and left one in the
\* buffer, after an event with null event_ts had passed through.
C34_Witness ==
    /\ ret.stats.emitted = 2
    /\ ret.stats.buffer_len = 1
    /\ EmittedNull # {}

\* C36 (as stated): for every configuration with allowed_lateness_us >= 0
\* and max_buffer_us >= 0, after every align call each event still in the
\* buffer has event_ts > last_event_ts - allowed_lateness_us: a forced flush
\* never leaves buffered an event the unforced watermark would have emitted.
C36_BufferedAboveWatermark ==
    \A e \in aligner.heap : e[1] > compute_watermark(aligner, cfg)

\* ------------------------------- main with a lateness budget in the aligner

\* the configuration of the engine with allowed_lateness_ms above zero
LateCfg == [EngineCfg EXCEPT !.allowed_lateness_us = 1]

InitLate ==
    /\ cfg = LateCfg
    /\ aligner = AlignerInit
    /\ lob = LobInit
    /\ decision = DecisionInit
    /\ ret = RetEngineInit
    /\ emitted = <<>>
    /\ late_ties = {}
    /\ seen = SeenInit
    /\ calls = 0
    /\ EngineRest

SpecMainLate == InitLate /\ [][NextMain]_vars

\* C35 (as stated): every event with non-null event_ts passed to ingest has
\* been emitted by the aligner, and so handed to the sanitizer, the policies
\* and the counters, by the time shutdown has written the summary, even when
\* no later event arrived to advance the watermark past it: no event is
\* still in the aligner's buffer then.
C35_ProcessedBeforeSummary == main.summary # <<>> => aligner.heap = {}

\* the stall trigger of a STATE_TRANSITION record names stream x
StallNames(rec, x) ==
    /\ Len(rec.trigger) >= 6
    /\ SubSeq(rec.trigger, 1, 6) = "stall:"
    /\ Contains(rec.trigger, x)

NeverIngested == \A x \in StreamSet : last_ingest_ts_by_stream[x] = NULL

\* C37: a stream on which ingest has never been called is never reported as
\* stalled: every stream named in a stall trigger has a recorded last ingest
\* time, and before the first ingest a tick changes no state of the engine
\* and writes no record, whatever the clock.
C37_NeverIngestedNeverStalled ==
    /\ [](\A i \in 1..Len(writer.state_transitions) : \A x \in StreamSet :
            StallNames(writer.state_transitions[i], x)
                => last_ingest_ts_by_stream[x] # NULL)
    /\ [][NeverIngested
            => UNCHANGED <<state, decision, stats, writer, lob, hypo,
                           sanitizer>>]_vars

\* C37 witness: a tick reported trades stalled at a time when liquidations,
\* never ingested, was past its threshold of zero counted from time zero.
C37_Witness ==
    /\ LastTransition.trigger = "stall:trades"
    /\ last_ingest_ts_by_stream["liquidations"] = NULL
    /\ LastTransition.ts - 0 > stall_threshold_us(cfg, "liquidations")

\* C38: on_event for stream S changes the stored verdict and reason of S
\* only: the stored verdicts and reasons of the other three streams are what
\* they were before the call (on_batch changes none), so while another
\* stream's stored verdict is UNTRUSTED the verdict on_event returns is
\* UNTRUSTED.
C38_OnEventFrame ==
    /\ ret.op = "on_event"
         => /\ \A x \in StreamSet \ {ret.stream} :
                 /\ trust.state_by_stream[x] = ret.before.state_by_stream[x]
                 /\ trust.reason_by_stream[x] = ret.before.reason_by_stream[x]
            /\ (\E x \in StreamSet \ {ret.stream} :
                    ret.before.state_by_stream[x] = "UNTRUSTED")
                 => ret.state = "UNTRUSTED"
    /\ ret.op = "on_batch"
         => /\ trust.state_by_stream = ret.before.state_by_stream
            /\ trust.reason_by_stream = ret.before.reason_by_stream

\* C38 witness: trades was UNTRUSTED, an order-book event was evaluated as
\* TRUSTED, and on_event returned UNTRUSTED.
C38_Witness ==
    /\ ret.op = "on_event"
    /\ ret.stream = "orderbook"
    /\ ret.before.state_by_stream["trades"] = "UNTRUSTED"
    /\ trust.state_by_stream["orderbook"] = "TRUSTED"
    /\ trust.state_by_stream["trades"] = "UNTRUSTED"
    /\ ret.state = "UNTRUSTED"

\* C39: a tick that finds a stream stalled changes the engine's data_trust,
\* hypothesis and decision fields, the decision span, the dwell trackers and
\* the counters (and appends its records); it leaves unchanged the order
\* book, the aligner buffer, the sanitizer's ticker cache, the trust policy's
\* windows and per-stream verdicts, the HypothesisPolicy state and
\* stable_since, last_ingest_ts_by_stream and the sanitization field.
C39_TickFrame ==
    [][ticks' # ticks
         => /\ UNCHANGED <<lob, aligner, sanitizer, trust, hypo,
                           last_ingest_ts_by_stream, cfg>>
            /\ state'.sanitization = state.sanitization
            /\ stats'.san_dwell = stats.san_dwell]_vars

\* C39 witness: a tick found a stream stalled while the HypothesisPolicy was
\* VALID with a stable window open and the book had both sides; the engine's
\* hypothesis field is WEAKENING and the policy is still VALID.
C39_Witness ==
    /\ ticks = 1
    /\ StallNames(LastTransition, "orderbook")
    /\ state.hypothesis = "WEAKENING"
    /\ hypo.state = "VALID"
    /\ hypo.stable_since_us # NULL
    /\ top(lob.orderbook).best_bid # NULL
    /\ top(lob.orderbook).best_ask # NULL

\* C40: the sanitizer's ticker cache is never cleared and is updated by
\* every TICKER event that passes the exchange and symbol checks, those that
\* are then quarantined for missing fields included: each cached field holds
\* the last non-null value seen for it, and once each of the six required
\* fields has been seen non-null, no later TICKER event with matching exchange
\* and symbol is QUARANTINE.
C40_CacheKeepsEverySeenField ==
    /\ [](/\ \A k \in SeqRange(TickerCached) : sanitizer[k] = ret.seen[k]
          /\ (MatchingTicker
              /\ \A k \in RequiredSet : ret.seen_before[k] # NULL)
                => ret.status # "QUARANTINE")
    /\ [][\A k \in SeqRange(TickerCached) :
             sanitizer[k] # NULL => sanitizer'[k] # NULL]_vars

\* C40 witness: the third ticker comes without mark_price after the six
\* required fields had been seen, predicted_funding_rate never; it is
\* repaired from the cache.
C40_Witness ==
    /\ MatchingTicker /\ calls = 3
    /\ \A k \in RequiredSet : ret.seen_before[k] # NULL
    /\ ret.seen_before["predicted_funding_rate"] = NULL
    /\ Get(ret.ev.data, "mark_price") = NULL
    /\ ret.status = "REPAIR"
    /\ ret.out.data["mark_price"] = ret.before["mark_price"]

====
